---- MODULE Spec2Model ----
(***************************************************************************)
(* Model of megatron/optimizer/distrib_optimizer.py: the distributed       *)
(* optimizer that shards the data-parallel gradient buffers.               *)
(*                                                                         *)
(* Python lists that are indexed by rank are functions over 0..W-1; lists  *)
(* built by append are sequences, and a Python index i reads element i+1.  *)
(* An ordered dict is the sequence of its items in insertion order.        *)
(***************************************************************************)
EXTENDS Integers, Sequences, FiniteSets, TLC

VARIABLES
    W,              \* mpu.get_data_parallel_world_size()
    gbufs,          \* the (model, dtype) grad buffers, in the walk order of self.models / _grad_buffers
    ptype,          \* param -> model_param.type()
    param_groups,   \* the base optimizer's param_groups as handed to the constructor
    pc,             \* rank -> where the participant is in the training script
    opt,            \* rank -> the DistributedOptimizer object of that participant
    cfg,            \* the arguments of the job: params_dtype, grad_scaler, the step rule
    mem,            \* rank -> the contents of the tensors the optimizer reads and writes
    disk,           \* rank -> the checkpoint state_dict() wrote for that rank
    loaded,         \* rank -> what the last load_state_dict() of that rank did
    run             \* rank -> the position in the step and the calls issued so far

model_vars == <<W, gbufs, ptype, param_groups>>

vars == <<W, gbufs, ptype, param_groups, pc, opt, cfg, mem, disk, loaded, run>>

(***************************************************************************)
(* Bounds of the explored inputs.                                          *)
(***************************************************************************)
MaxW == 3            \* data-parallel world sizes 1..MaxW
MaxNumel == 10       \* elements of the single grad buffer of SpecPartition
MaxLayoutParams == 2 \* parameters in that buffer
MaxGroupNumel == 3   \* elements over all grad buffers of Spec
MaxParams == 2       \* parameters over all grad buffers of Spec
MaxBufs == 2         \* (model, dtype) grad buffers of Spec
MaxCheckpointW == 2      \* world sizes of SpecCheckpoint
MaxCheckpointNumel == 2  \* elements over all grad buffers of SpecCheckpoint
MaxStepW == 2        \* world sizes of SpecStep
MaxStepNumel == 2    \* elements over all grad buffers of SpecStep
MaxSteps == 2        \* training steps of SpecStep
MaxZeroGradW == 2        \* world sizes of SpecZeroGrad
MaxZeroGradNumel == 1    \* elements over all grad buffers of SpecZeroGrad
MaxArgumentsW == 2       \* world sizes of SpecArguments
MaxArgumentsParams == 2  \* one-element parameters of SpecArguments
MaxGatherW == 2          \* world sizes of SpecGather
MaxGatherNumel == 2      \* elements over all grad buffers of SpecGather
MaxPaddingW == 3         \* world sizes of SpecPadding
MaxPaddingNumel == 5     \* elements of the single grad buffer of SpecPadding
MaxPadding == 1          \* extra elements per participant in the padding

HalfTensor == "torch.cuda.HalfTensor"
BFloat16Tensor == "torch.cuda.BFloat16Tensor"
FloatTensor == "torch.cuda.FloatTensor"
ParamTypes == {HalfTensor, BFloat16Tensor, FloatTensor}
\* a tensor type the optimizer does not wrap
DoubleTensor == "torch.cuda.DoubleTensor"

\* The hyperparameter sets of the base optimizer's groups (one group each).
GroupHypers == <<"weight_decay", "no_weight_decay">>

Max(a, b) == IF a >= b THEN a ELSE b
Min(a, b) == IF a <= b THEN a ELSE b

\* int(math.ceil(a / b)) for a >= 0, b >= 1
CeilDiv(a, b) == (a + b - 1) \div b

(***************************************************************************)
(* class Range                                                             *)
(***************************************************************************)
Range(start, end) == [start |-> start, end |-> end, size |-> end - start]

normalize(range, start) == Range(start, start + range.size)

(***************************************************************************)
(* build_model_gbuf_param_range_map                                        *)
(***************************************************************************)
param_local_start_unclamped(param_world_indexes, gbuf_world_range) ==
    param_world_indexes.start - gbuf_world_range.start

param_local_start(param_world_indexes, gbuf_world_range) ==
    Max(0, param_world_indexes.start - gbuf_world_range.start)

param_local_end_unclamped(param_world_indexes, gbuf_world_range) ==
    param_world_indexes.end - gbuf_world_range.start

param_local_end(param_world_indexes, gbuf_world_range) ==
    Min(gbuf_world_range.size,
        param_world_indexes.end - gbuf_world_range.start)

sub_param_start_zero(param_world_indexes, gbuf_world_range) == 0

sub_param_start(param_world_indexes, gbuf_world_range) ==
    Max(0, gbuf_world_range.start - param_world_indexes.start)

\* the condition "Add param, if within local gbuf range"
param_within_local(param_world_indexes, gbuf_world_range) ==
    param_local_end(param_world_indexes, gbuf_world_range)
        > param_local_start(param_world_indexes, gbuf_world_range)

\* the value stored under param_range_map[param]; field p is the dict key
param_range_entry(param_world_indexes, gbuf_world_range) ==
    LET local_start == param_local_start(param_world_indexes, gbuf_world_range)
        param_local_range ==
            Range(local_start, param_local_end(param_world_indexes, gbuf_world_range))
        param_world_range ==
            normalize(param_local_range, local_start + gbuf_world_range.start)
        sub_param_range ==
            normalize(param_local_range,
                      sub_param_start(param_world_indexes, gbuf_world_range))
    IN  [p |-> param_world_indexes.p,
         gbuf_world_order |-> param_world_indexes.order,
         gbuf_world |-> param_world_range,
         gbuf_local |-> param_local_range,
         param |-> sub_param_range]

build_model_gbuf_param_range_map(param_world_index_map, gbuf_world_range) ==
    LET kept == SelectSeq(param_world_index_map,
                          LAMBDA pwi : param_within_local(pwi, gbuf_world_range))
    IN  [k \in 1..Len(kept) |-> param_range_entry(kept[k], gbuf_world_range)]

(***************************************************************************)
(* build_model_gbuf_range                                                  *)
(***************************************************************************)
gbuf_size_padded(grad_buffer) == grad_buffer.numel_padded

gbuf_size(grad_buffer) == grad_buffer.numel

max_gbuf_range_size_floor(size, data_parallel_world_size) ==
    size \div data_parallel_world_size

max_gbuf_range_size(size, data_parallel_world_size) ==
    CeilDiv(size, data_parallel_world_size)

gbuf_world_start_one_based(r, max_range_size) == (r + 1) * max_range_size

gbuf_world_start(r, max_range_size) == r * max_range_size

gbuf_world_end_unclamped(size, world_start, max_range_size) ==
    world_start + max_range_size

gbuf_world_end(size, world_start, max_range_size) ==
    Min(size, world_start + max_range_size)

gbuf_world_all_ranges(size, data_parallel_world_size) ==
    LET max_range_size == max_gbuf_range_size(size, data_parallel_world_size)
    IN  [r \in 0..(data_parallel_world_size - 1) |->
            Range(gbuf_world_start(r, max_range_size),
                  gbuf_world_end(size, gbuf_world_start(r, max_range_size),
                                 max_range_size))]

local_world_range_first(world_all_ranges, data_parallel_rank) ==
    world_all_ranges[0]

\* gbuf_world_range = gbuf_world_all_ranges[data_parallel_rank]
local_world_range(world_all_ranges, data_parallel_rank) ==
    world_all_ranges[data_parallel_rank]

build_model_gbuf_range(grad_buffer, data_parallel_rank, data_parallel_world_size) ==
    LET size == gbuf_size(grad_buffer)
        world_all == gbuf_world_all_ranges(size, data_parallel_world_size)
        gbuf_world_range == local_world_range(world_all, data_parallel_rank)
    IN  [local |-> normalize(gbuf_world_range, 0),
         world |-> gbuf_world_range,
         world_all |-> world_all,
         param_map |-> build_model_gbuf_param_range_map(
                            grad_buffer.param_index_map, gbuf_world_range),
         max_range_size |-> max_gbuf_range_size(size, data_parallel_world_size)]

\* build_model_gbuf_range_map for every model of self.models: the items
\* (model_index, dtype) -> gbuf_range_map in the order they are walked
build_model_gbuf_ranges(buffers, data_parallel_rank, data_parallel_world_size) ==
    [b \in 1..Len(buffers) |->
        [model_index |-> buffers[b].model_index,
         dtype |-> buffers[b].dtype,
         gbuf_range_map |->
            build_model_gbuf_range(buffers[b], data_parallel_rank,
                                   data_parallel_world_size)]]

\* model_gbuf_ranges[model_index][dtype]
gbuf_range_at(model_gbuf_ranges, model_index, dtype) ==
    LET b == CHOOSE k \in 1..Len(model_gbuf_ranges) :
                /\ model_gbuf_ranges[k].model_index = model_index
                /\ model_gbuf_ranges[k].dtype = dtype
    IN  model_gbuf_ranges[b].gbuf_range_map

\* the keys of every param_map, in the order the nested loops visit them
RECURSIVE visited_params(_)
visited_params(model_gbuf_ranges) ==
    IF model_gbuf_ranges = <<>> THEN <<>>
    ELSE LET param_map == Head(model_gbuf_ranges).gbuf_range_map.param_map
         IN  [k \in 1..Len(param_map) |-> param_map[k].p]
                \o visited_params(Tail(model_gbuf_ranges))

SeqToSet(s) == {s[k] : k \in 1..Len(s)}

(***************************************************************************)
(* build_model_param_gbuf_map                                              *)
(***************************************************************************)
build_model_param_gbuf_map(model_gbuf_ranges) ==
    [p \in SeqToSet(visited_params(model_gbuf_ranges)) |->
        LET b == CHOOSE k \in 1..Len(model_gbuf_ranges) :
                    \E j \in 1..Len(model_gbuf_ranges[k].gbuf_range_map.param_map) :
                        model_gbuf_ranges[k].gbuf_range_map.param_map[j].p = p
        IN  <<model_gbuf_ranges[b].model_index, model_gbuf_ranges[b].dtype>>]

(***************************************************************************)
(* build_optimizer_group_ranges                                            *)
(***************************************************************************)
\* world_param_group_map[param]; group indexes are 0-based
world_param_group_map(groups, param) ==
    (CHOOSE g \in 1..Len(groups) : param \in SeqToSet(groups[g].params)) - 1

\* the loop over the visited params: appends to group_ranges[group_index]
\* and records (group_index, len(params) - 1)
RECURSIVE collect_group_ranges(_, _, _, _)
collect_group_ranges(groups, visit, group_ranges, local_param_group_map) ==
    IF visit = <<>>
    THEN [group_ranges |-> group_ranges,
          local_param_group_map |-> local_param_group_map]
    ELSE LET param == Head(visit)
             group_index == world_param_group_map(groups, param)
             appended == [group_ranges EXCEPT ![group_index + 1].params =
                                Append(@, param)]
         IN  collect_group_ranges(
                groups, Tail(visit), appended,
                [q \in DOMAIN local_param_group_map \cup {param} |->
                    IF q = param
                    THEN <<group_index, Len(appended[group_index + 1].params) - 1>>
                    ELSE local_param_group_map[q]])

\* the group ranges with the empty ones left in
squeeze_group_ranges_skipped(group_ranges) == group_ranges

\* "Squeeze zero-size group ranges": orig_group is the index (0-based) of the
\* base optimizer's group object the range refers to
squeeze_group_ranges(group_ranges) ==
    SelectSeq(group_ranges, LAMBDA g : Len(g.params) > 0)

build_optimizer_group_ranges(groups, model_gbuf_ranges) ==
    LET collected ==
            collect_group_ranges(
                groups, visited_params(model_gbuf_ranges),
                [g \in 1..Len(groups) |-> [params |-> <<>>, orig_group |-> g - 1]],
                <<>>)
    IN  [local_param_group_map |-> collected.local_param_group_map,
         group_ranges |-> squeeze_group_ranges(collected.group_ranges)]

(***************************************************************************)
(* build_model_and_main_param_groups                                       *)
(***************************************************************************)
is_float16_param(types, model_param) ==
    types[model_param] \in {HalfTensor, BFloat16Tensor}

is_fp32_param(types, model_param) == types[model_param] = FloatTensor

\* param_range = gbuf_range["param_map"][model_param]["param"]
param_range_of(model_gbuf_ranges, param_gbuf_map, model_param) ==
    LET key == param_gbuf_map[model_param]
        param_map == gbuf_range_at(model_gbuf_ranges, key[1], key[2]).param_map
        j == CHOOSE k \in 1..Len(param_map) : param_map[k].p = model_param
    IN  param_map[j]

\* the head of the parameter up to the end of the range
shard_model_param_from_zero(types, model_param, param_range) ==
    [tensor |-> "view", of |-> model_param, type |-> types[model_param],
     start |-> 0, end |-> param_range.end]

\* model_param.view(-1)[param_range.start:param_range.end]
shard_model_param(types, model_param, param_range) ==
    [tensor |-> "view", of |-> model_param, type |-> types[model_param],
     start |-> param_range.start, end |-> param_range.end]

\* shard_model_param.clone().float()
shard_main_param(types, model_param, param_range) ==
    [tensor |-> "clone", of |-> model_param, type |-> FloatTensor,
     start |-> param_range.start, end |-> param_range.end]

optimizer_params_main_first(shard_fp32, shard_fp32_from_float16) ==
    shard_fp32_from_float16 \o shard_fp32

\* group_range["orig_group"]["params"] = [*shard_fp32, *shard_fp32_from_float16]
optimizer_params(shard_fp32, shard_fp32_from_float16) ==
    shard_fp32 \o shard_fp32_from_float16

\* one iteration of the loop over opt_group_ranges
main_param_group(types, model_gbuf_ranges, param_gbuf_map, group_range) ==
    LET range_of(model_param) ==
            param_range_of(model_gbuf_ranges, param_gbuf_map, model_param).param
        model_float16 ==
            SelectSeq(group_range.params, LAMBDA q : is_float16_param(types, q))
        model_fp32 ==
            SelectSeq(group_range.params, LAMBDA q : is_fp32_param(types, q))
        shard_float16 ==
            [k \in 1..Len(model_float16) |->
                shard_model_param(types, model_float16[k], range_of(model_float16[k]))]
        shard_fp32 ==
            [k \in 1..Len(model_fp32) |->
                shard_model_param(types, model_fp32[k], range_of(model_fp32[k]))]
        shard_fp32_from_float16 ==
            [k \in 1..Len(model_float16) |->
                shard_main_param(types, model_float16[k], range_of(model_float16[k]))]
    IN  [model_float16 |-> model_float16,
         model_fp32 |-> model_fp32,
         shard_float16 |-> shard_float16,
         shard_fp32 |-> shard_fp32,
         shard_fp32_from_float16 |-> shard_fp32_from_float16,
         orig_group_params |-> optimizer_params(shard_fp32, shard_fp32_from_float16)]

build_model_and_main_param_groups(types, model_gbuf_ranges, param_gbuf_map, opt_group_ranges) ==
    LET built == [g \in 1..Len(opt_group_ranges) |->
                    main_param_group(types, model_gbuf_ranges, param_gbuf_map,
                                     opt_group_ranges[g])]
    IN  [model_float16_groups |->
            [g \in 1..Len(built) |-> built[g].model_float16],
         model_fp32_groups |->
            [g \in 1..Len(built) |-> built[g].model_fp32],
         shard_float16_groups |->
            [g \in 1..Len(built) |-> built[g].shard_float16],
         shard_fp32_groups |->
            [g \in 1..Len(built) |-> built[g].shard_fp32],
         shard_fp32_from_float16_groups |->
            [g \in 1..Len(built) |-> built[g].shard_fp32_from_float16],
         orig_group_params |->
            [g \in 1..Len(built) |-> built[g].orig_group_params]]

\* a parameter that takes the else branch of the loop over the group's params
is_unsupported_param(types, model_param) ==
    ~is_float16_param(types, model_param) /\ ~is_fp32_param(types, model_param)

main_param_group_error_none(types, group_range) == ""

\* what one iteration of the loop over opt_group_ranges raises: the else
\* branch formats its TypeError with param.type(), and no name param is bound
\* in build_model_and_main_param_groups
main_param_group_error(types, group_range) ==
    IF \E k \in 1..Len(group_range.params) :
            is_unsupported_param(types, group_range.params[k])
    THEN "NameError"
    ELSE ""

\* what build_model_and_main_param_groups raises, "" if it returns
build_model_and_main_param_groups_error(types, opt_group_ranges) ==
    IF \E g \in 1..Len(opt_group_ranges) :
            main_param_group_error(types, opt_group_ranges[g]) # ""
    THEN main_param_group_error(
            types,
            opt_group_ranges[CHOOSE g \in 1..Len(opt_group_ranges) :
                /\ main_param_group_error(types, opt_group_ranges[g]) # ""
                /\ \A h \in 1..(g - 1) :
                        main_param_group_error(types, opt_group_ranges[h]) = ""])
    ELSE ""

(***************************************************************************)
(* DistributedOptimizer.__init__                                           *)
(***************************************************************************)
\* self.optimizer.param_groups = [ g["orig_group"] for g in self.opt_group_ranges ]
\* with the "params" each orig_group was given by build_model_and_main_param_groups
updated_optimizer_param_groups(groups, opt_group_ranges, orig_group_params) ==
    [g \in 1..Len(opt_group_ranges) |->
        [params |-> orig_group_params[g],
         hyper |-> groups[opt_group_ranges[g].orig_group + 1].hyper]]

\* a participant before its optimizer is constructed
NoOptimizer ==
    [model_gbuf_ranges |-> <<>>,
     model_param_gbuf_map |-> <<>>,
     model_param_group_index_map |-> <<>>,
     opt_group_ranges |-> <<>>,
     model_float16_groups |-> <<>>,
     model_fp32_groups |-> <<>>,
     shard_float16_groups |-> <<>>,
     shard_fp32_groups |-> <<>>,
     shard_fp32_from_float16_groups |-> <<>>,
     optimizer_param_groups |-> <<>>]

DistributedOptimizerOf(buffers, types, base_groups, data_parallel_world_size, data_parallel_rank) ==
    LET model_gbuf_ranges ==
            build_model_gbuf_ranges(buffers, data_parallel_rank, data_parallel_world_size)
        model_param_gbuf_map == build_model_param_gbuf_map(model_gbuf_ranges)
        ranges == build_optimizer_group_ranges(base_groups, model_gbuf_ranges)
        groups == build_model_and_main_param_groups(
                        types, model_gbuf_ranges, model_param_gbuf_map,
                        ranges.group_ranges)
    IN  [model_gbuf_ranges |-> model_gbuf_ranges,
         model_param_gbuf_map |-> model_param_gbuf_map,
         model_param_group_index_map |-> ranges.local_param_group_map,
         opt_group_ranges |-> ranges.group_ranges,
         model_float16_groups |-> groups.model_float16_groups,
         model_fp32_groups |-> groups.model_fp32_groups,
         shard_float16_groups |-> groups.shard_float16_groups,
         shard_fp32_groups |-> groups.shard_fp32_groups,
         shard_fp32_from_float16_groups |-> groups.shard_fp32_from_float16_groups,
         optimizer_param_groups |->
            updated_optimizer_param_groups(base_groups, ranges.group_ranges,
                                           groups.orig_group_params)]

\* what __init__ raises for these arguments, "" if it returns
construction_error(buffers, types, base_groups, data_parallel_world_size, data_parallel_rank) ==
    LET model_gbuf_ranges ==
            build_model_gbuf_ranges(buffers, data_parallel_rank, data_parallel_world_size)
        ranges == build_optimizer_group_ranges(base_groups, model_gbuf_ranges)
    IN  build_model_and_main_param_groups_error(types, ranges.group_ranges)

\* the optimizer of one participant of the model in the state
DistributedOptimizer(data_parallel_rank) ==
    DistributedOptimizerOf(gbufs, ptype, param_groups, W, data_parallel_rank)

(***************************************************************************)
(* state_dict: the shard and the state key it reads for a model parameter  *)
(***************************************************************************)
\* a Python list index that raises IndexError when out of range
HasIndex(list, i) == 0 <= i /\ i < Len(list)

\* main_param = self.optimizer.param_groups[group_index]["params"][group_order]
state_dict_main_param(self, model_param) ==
    LET group_index == self.model_param_group_index_map[model_param][1]
        group_order == self.model_param_group_index_map[model_param][2]
        groups == self.optimizer_param_groups
    IN  IF /\ HasIndex(groups, group_index)
           /\ HasIndex(groups[group_index + 1].params, group_order)
        THEN [exists |-> TRUE,
              main_param |-> groups[group_index + 1].params[group_order + 1]]
        ELSE [exists |-> FALSE,
              main_param |-> [tensor |-> "IndexError", of |-> 0, type |-> "",
                              start |-> 0, end |-> 0]]

(***************************************************************************)
(* Tensor contents.  An element is an integer.  A float32 tensor holds     *)
(* every value; a half tensor holds the multiples of 2 and a bfloat16      *)
(* tensor the multiples of 4, and a copy into a tensor of another type     *)
(* rounds to the grid of the destination.                                  *)
(***************************************************************************)
\* bytes of one element of a tensor type or torch dtype
element_size(dtype) ==
    IF dtype \in {HalfTensor, BFloat16Tensor, "torch.half", "torch.bfloat16"} THEN 2
    ELSE IF dtype \in {FloatTensor, "torch.float"} THEN 4
    ELSE 8

cast(v, type) ==
    IF type = HalfTensor THEN v - (v % 2)
    ELSE IF type = BFloat16Tensor THEN v - (v % 4)
    ELSE v

\* tensor[start:end] of a flat tensor, for 0 <= start
py_slice(tensor, start, end) ==
    [i \in 1..(Min(end, Len(tensor)) - start) |-> tensor[start + i]]

\* the item of param in the _grad_buffer_param_index_map that holds it
index_item(buffers, param) ==
    LET b == CHOOSE k \in 1..Len(buffers) :
                \E j \in 1..Len(buffers[k].param_index_map) :
                    buffers[k].param_index_map[j].p = param
        j == CHOOSE k \in 1..Len(buffers[b].param_index_map) :
                buffers[b].param_index_map[k].p = param
    IN  [buffer |-> b, item |-> buffers[b].param_index_map[j]]

\* element i of model parameter p when the model is built: a value its type
\* holds exactly, and for a float32 parameter one no 16-bit type holds
InitialValue(types, p, i) ==
    64 * p + 4 * i + (IF types[p] = FloatTensor THEN 1 ELSE 0)

\* the parameters of the model replica of one participant
model_params(buffers, types) ==
    [p \in DOMAIN types |->
        LET item == index_item(buffers, p).item
        IN  [i \in 1..(item.end - item.start) |-> InitialValue(types, p, i - 1)]]

\* args.params_dtype: the 16-bit type of a mixed-precision model, float32
\* for a model that has float32 parameters only
params_dtype_of(types) ==
    IF \E p \in DOMAIN types : types[p] = BFloat16Tensor THEN BFloat16Tensor
    ELSE IF \E p \in DOMAIN types : types[p] = HalfTensor THEN HalfTensor
    ELSE FloatTensor

\* an optimizer state without entries
NoState == [shard \in {} |-> 0]

\* the tensors of a participant whose optimizer is not constructed
NoMemory(buffers, types, config) ==
    [params |-> model_params(buffers, types),
     main |-> <<>>,
     state |-> NoState,
     param_buffers |-> <<>>,
     grads |-> [b \in 1..Len(buffers) |-> [scaled |-> 0, reduced |-> FALSE]],
     main_grads |-> NoState,
     scaler |-> IF config.grad_scaler THEN 8 ELSE 0]

\* the contents of a shard that is a view of its model parameter
view_data(memory, shard) ==
    py_slice(memory.params[shard.of], shard.start, shard.end)

\* shard_model_param.clone().float()
clone_float(tensor) == [i \in 1..Len(tensor) |-> cast(tensor[i], FloatTensor)]

\* "Initialize param buffers": the storage of each grad buffer read as
\* elements of params_dtype and cut to numel_padded elements; what it holds
\* is whatever the gradients left there, written here as -1
initial_param_buffers(buffers, params_dtype) ==
    [b \in 1..Len(buffers) |->
        [i \in 1..Min(buffers[b].numel_padded,
                      (buffers[b].numel_padded * element_size(buffers[b].dtype))
                            \div element_size(params_dtype)) |-> 0 - 1]]

\* the tensors __init__ allocates: main[g][k] is the contents of
\* shard_fp32_from_float16_groups[g][k]; the base optimizer has no state yet
constructed_memory(self, memory, buffers, params_dtype) ==
    [memory EXCEPT
        !.main = [g \in 1..Len(self.shard_float16_groups) |->
                    [k \in 1..Len(self.shard_float16_groups[g]) |->
                        clone_float(view_data(memory,
                                              self.shard_float16_groups[g][k]))]],
        !.state = NoState,
        !.param_buffers = initial_param_buffers(buffers, params_dtype)]

\* the contents of self.optimizer.param_groups[g]["params"][k]
main_param_data(self, memory, g, k) ==
    LET shard == self.optimizer_param_groups[g].params[k]
    IN  IF shard.tensor = "view" THEN view_data(memory, shard)
        ELSE memory.main[g][CHOOSE j \in 1..Len(self.shard_fp32_from_float16_groups[g]) :
                                self.shard_fp32_from_float16_groups[g][j] = shard]

(***************************************************************************)
(* The base optimizer (torch.optim.Optimizer), which the distributed       *)
(* optimizer wraps: its state is keyed by the tensors of its groups.       *)
(***************************************************************************)
\* self.optimizer.state[main_param]; the state is a defaultdict
optimizer_state(memory, main_param) ==
    IF main_param \in DOMAIN memory.state THEN memory.state[main_param]
    ELSE [step |-> 0, exp_avg |-> 0]

RECURSIVE params_before(_, _)
params_before(groups, g) ==
    IF g <= 1 THEN 0
    ELSE params_before(groups, g - 1) + Len(groups[g - 1].params)

\* self.optimizer.state_dict()["param_groups"]: each group with its params
\* replaced by consecutive integers, counted through the groups in order
packed_param_groups(groups) ==
    [g \in 1..Len(groups) |->
        [hyper |-> groups[g].hyper,
         params |-> [k \in 1..Len(groups[g].params) |->
                        params_before(groups, g) + k - 1]]]

\* self.optimizer.load_state_dict(state_dict): the groups must have the saved
\* sizes; the saved integer at a position names the tensor at that position,
\* whose state becomes state_dict["state"][integer]; the hyperparameters are
\* the saved ones
base_load_state_dict(groups, saved_groups, saved_state) ==
    IF \/ Len(groups) # Len(saved_groups)
       \/ \E g \in 1..Len(groups) :
            Len(groups[g].params) # Len(saved_groups[g].params)
    THEN [raised |-> "ValueError", param_groups |-> groups, state |-> NoState]
    ELSE LET positions ==
                {gk \in UNION {{<<g, k>> : k \in 1..Len(groups[g].params)} :
                               g \in 1..Len(groups)} :
                    saved_groups[gk[1]].params[gk[2]] \in DOMAIN saved_state}
             position_of(shard) ==
                CHOOSE gk \in positions : groups[gk[1]].params[gk[2]] = shard
         IN  [raised |-> "",
              param_groups |->
                [g \in 1..Len(groups) |->
                    [params |-> groups[g].params, hyper |-> saved_groups[g].hyper]],
              state |->
                [shard \in {groups[gk[1]].params[gk[2]] : gk \in positions} |->
                    saved_state[saved_groups[position_of(shard)[1]]
                                    .params[position_of(shard)[2]]]]]

\* self.optimizer.step() under the step rule of the job: "update" moves every
\* element of every tensor of the groups, "identity" moves none; either way
\* each tensor gets its state
stepped_value(v, rule) == IF rule = "update" THEN v + 3 ELSE v

stepped_state(memory, shard) ==
    [step |-> optimizer_state(memory, shard).step + 1,
     exp_avg |-> 16 * shard.of + shard.start + 1]

base_step(self, memory, config) ==
    LET groups == self.optimizer_param_groups
        shards == UNION {SeqToSet(groups[g].params) : g \in 1..Len(groups)}
        views(p) == {s \in shards : s.tensor = "view" /\ s.of = p}
        moved(p, i) == \E s \in views(p) : s.start < i /\ i <= s.end
    IN  [memory EXCEPT
            !.main = [g \in 1..Len(memory.main) |->
                        [k \in 1..Len(memory.main[g]) |->
                            [i \in 1..Len(memory.main[g][k]) |->
                                stepped_value(memory.main[g][k][i], config.step_rule)]]],
            !.params = [p \in DOMAIN memory.params |->
                        [i \in 1..Len(memory.params[p]) |->
                            IF moved(p, i)
                            THEN stepped_value(memory.params[p][i], config.step_rule)
                            ELSE memory.params[p][i]]],
            !.state = [s \in shards |-> stepped_state(memory, s)],
            !.scaler = IF config.grad_scaler THEN memory.scaler + 1 ELSE memory.scaler]

(***************************************************************************)
(* state_dict                                                              *)
(***************************************************************************)
\* the items of every param_map, in the order the nested loops visit them
RECURSIVE visited_items(_)
visited_items(model_gbuf_ranges) ==
    IF model_gbuf_ranges = <<>> THEN <<>>
    ELSE Head(model_gbuf_ranges).gbuf_range_map.param_map
            \o visited_items(Tail(model_gbuf_ranges))

\* the dict appended for one item; "param" holds the tensor and its contents
shard_state_dict(self, memory, default_state_dict, item) ==
    LET group_index == self.model_param_group_index_map[item.p][1]
        group_order == self.model_param_group_index_map[item.p][2]
        main_param == state_dict_main_param(self, item.p).main_param
    IN  [world_order |-> item.gbuf_world_order,
         state_order |-> default_state_dict.param_groups[group_index + 1]
                            .params[group_order + 1],
         group_index |-> group_index,
         group_order |-> group_order,
         param_range_map |-> item,
         param |-> [shard |-> main_param,
                    data |-> main_param_data(self, memory, group_index + 1,
                                             group_order + 1)],
         optim |-> optimizer_state(memory, main_param)]

\* the returned dict, or the IndexError of a lookup in param_groups; keys is
\* the set of the dict's top-level keys
state_dict(self, memory, config) ==
    LET default_state_dict ==
            [param_groups |-> packed_param_groups(self.optimizer_param_groups)]
        items == visited_items(self.model_gbuf_ranges)
    IN  IF \E k \in 1..Len(items) : ~state_dict_main_param(self, items[k].p).exists
        THEN [raised |-> "IndexError", keys |-> {},
              optimizer |-> [param_groups |-> <<>>, state |-> <<>>],
              grad_scaler |-> 0]
        ELSE [raised |-> "",
              keys |-> IF config.grad_scaler THEN {"optimizer", "grad_scaler"}
                       ELSE {"optimizer"},
              optimizer |->
                [param_groups |-> default_state_dict.param_groups,
                 state |-> [k \in 1..Len(items) |->
                                shard_state_dict(self, memory, default_state_dict,
                                                 items[k])]],
              grad_scaler |-> IF config.grad_scaler THEN memory.scaler ELSE 0]

(***************************************************************************)
(* load_state_dict                                                         *)
(***************************************************************************)
\* dst.data.copy_(src): src must have the size of dst or broadcast to it
tensor_copy(dst, src) ==
    IF Len(src) = Len(dst)
    THEN [raised |-> "", data |-> [i \in 1..Len(dst) |-> cast(src[i], FloatTensor)]]
    ELSE IF Len(src) = 1
    THEN [raised |-> "", data |-> [i \in 1..Len(dst) |-> cast(src[1], FloatTensor)]]
    ELSE [raised |-> "RuntimeError", data |-> dst]

\* "Collect shards & set main params", from the k-th dict on; main is the
\* contents of shard_fp32_from_float16_groups and written lists the dicts
\* copied with the entry each was copied into
RECURSIVE collect_shards(_, _, _)
collect_shards(shard_state_dicts, k, acc) ==
    IF k > Len(shard_state_dicts) \/ acc.raised # "" THEN acc
    ELSE LET shard == shard_state_dicts[k]
             group_index == shard.group_index
             group_order == shard.group_order
             appended == Append(acc.optim_state_dicts,
                                <<shard.state_order, shard.optim>>)
         IN  IF ~(/\ HasIndex(acc.main, group_index)
                  /\ HasIndex(acc.main[group_index + 1], group_order))
             THEN [acc EXCEPT !.raised = "IndexError",
                              !.optim_state_dicts = appended]
             ELSE LET copied == tensor_copy(
                                    acc.main[group_index + 1][group_order + 1],
                                    shard.param.data)
                  IN  collect_shards(shard_state_dicts, k + 1,
                        [raised |-> copied.raised,
                         main |-> [acc.main EXCEPT
                                    ![group_index + 1][group_order + 1] = copied.data],
                         optim_state_dicts |-> appended,
                         written |-> IF copied.raised # "" THEN acc.written
                                     ELSE Append(acc.written,
                                            [dict |-> k,
                                             group |-> group_index + 1,
                                             entry |-> group_order + 1])])

\* the list left as it was collected
sort_skipped(optim_state_dicts) == optim_state_dicts

\* optim_state_dicts.sort(key = lambda d : d[0]); the sort is stable
RECURSIVE sort_by_state_order(_)
sort_by_state_order(optim_state_dicts) ==
    IF optim_state_dicts = <<>> THEN <<>>
    ELSE LET n == Len(optim_state_dicts)
             last == optim_state_dicts[n]
             front == sort_by_state_order(SubSeq(optim_state_dicts, 1, n - 1))
             before == Cardinality({i \in 1..(n - 1) : front[i][1] <= last[1]})
         IN  SubSeq(front, 1, before) \o <<last>> \o SubSeq(front, before + 1, n - 1)

\* {i:d for i,d in enumerate(optim_state_dicts)} after the sort
enumerated_state(optim_state_dicts) ==
    LET sorted == sort_by_state_order(optim_state_dicts)
    IN  [i \in 0..(Len(sorted) - 1) |-> sorted[i + 1][2]]

\* what one call does: the exception it raised if any, the tensors and the
\* groups it leaves, the dict it handed to the base optimizer if it got that
\* far, and whether it printed the grad scaler warning
load_state_dict(self, memory, config, checkpoint) ==
    LET shards == collect_shards(checkpoint.optimizer.state, 1,
                        [raised |-> "", main |-> memory.main,
                         optim_state_dicts |-> <<>>, written |-> <<>>])
        state == enumerated_state(shards.optim_state_dicts)
        base == base_load_state_dict(self.optimizer_param_groups,
                                     checkpoint.optimizer.param_groups, state)
        copied == [memory EXCEPT !.main = shards.main]
        result == [raised |-> "", memory |-> copied,
                   param_groups |-> self.optimizer_param_groups,
                   written |-> shards.written, handed |-> FALSE,
                   state |-> NoState, warned |-> FALSE]
    IN  IF shards.raised # "" THEN [result EXCEPT !.raised = shards.raised]
        ELSE IF base.raised # ""
        THEN [result EXCEPT !.raised = base.raised, !.handed = TRUE, !.state = state]
        ELSE LET restored == [result EXCEPT
                                !.memory = [copied EXCEPT !.state = base.state],
                                !.param_groups = base.param_groups,
                                !.handed = TRUE,
                                !.state = state]
             IN  IF config.grad_scaler
                 THEN IF "grad_scaler" \in checkpoint.keys
                      THEN [restored EXCEPT !.memory.scaler = checkpoint.grad_scaler]
                      ELSE [restored EXCEPT !.raised = "KeyError"]
                 ELSE [restored EXCEPT !.warned = TRUE]

(***************************************************************************)
(* The calls of one training step, in the order a participant makes them.  *)
(* A call is [op, buffer]; buffer is 0 for the calls that are not about    *)
(* one grad buffer.                                                        *)
(***************************************************************************)
Call(op, b) == [op |-> op, buffer |-> b]

\* one division per buffer, every buffer again for each buffer walked
scale_calls_every_buffer(buffers) ==
    [k \in 1..(Len(buffers) * Len(buffers)) |->
        Call("scale", ((k - 1) % Len(buffers)) + 1)]

\* for model in self.models: for dtype, gbuf in model._grad_buffers.items():
\*     gbuf.data /= data_parallel_world_size
scale_calls(buffers) == [b \in 1..Len(buffers) |-> Call("scale", b)]

\* the buffers walked from the last to the first by the odd ranks
reduce_scatter_calls_by_rank(buffers, data_parallel_rank) ==
    [k \in 1..Len(buffers) |->
        Call("reduce_scatter",
             IF data_parallel_rank % 2 = 1 THEN Len(buffers) + 1 - k ELSE k)]

\* for ... in enumerate(gbuf_view_items): _reduce_scatter_base(
\*     gbuf_views[data_parallel_rank], gbuf, group = data_parallel_group)
reduce_scatter_calls(buffers, data_parallel_rank) ==
    [b \in 1..Len(buffers) |-> Call("reduce_scatter", b)]

\* each buffer divided just before its own reduce-scatter
reduce_model_grads_calls_buffer_by_buffer(buffers, data_parallel_rank) ==
    <<Call("allreduce_layernorm_grads", 0), Call("allreduce_embedding_grads", 0)>>
        \o [k \in 1..(2 * Len(buffers)) |->
                IF k % 2 = 1 THEN scale_calls(buffers)[(k + 1) \div 2]
                ELSE reduce_scatter_calls(buffers, data_parallel_rank)[k \div 2]]

reduce_model_grads_calls(buffers, data_parallel_rank) ==
    <<Call("allreduce_layernorm_grads", 0), Call("allreduce_embedding_grads", 0)>>
        \o scale_calls(buffers)
        \o reduce_scatter_calls(buffers, data_parallel_rank)

\* for ... in enumerate(pbuf_view_items): _all_gather_base(
\*     pbuf, pbuf_views[data_parallel_rank], group = data_parallel_group)
\* and then the copy of every param out of its param buffer
gather_model_params_calls(buffers, data_parallel_rank) ==
    [b \in 1..Len(buffers) |-> Call("all_gather", b)]
        \o <<Call("copy_param_buffers_to_params", 0)>>

\* backward, reduce_model_grads, the mixed-precision step, gather_model_params
step_calls(buffers, data_parallel_rank) ==
    <<Call("backward", 0)>>
        \o reduce_model_grads_calls(buffers, data_parallel_rank)
        \o <<Call("copy_model_grads_to_main_grads", 0),
             Call("step", 0),
             Call("copy_main_params_to_model_params", 0)>>
        \o gather_model_params_calls(buffers, data_parallel_rank)

(***************************************************************************)
(* get_model_buffer_dp_views                                               *)
(***************************************************************************)
\* the views of a buffer of numel elements and the assert on numel
get_model_buffer_dp_views(numel, data_parallel_world_size) ==
    LET shard_size == numel \div data_parallel_world_size
    IN  [raised |-> IF numel % data_parallel_world_size = 0 THEN ""
                    ELSE "AssertionError",
         buf_views |-> [r \in 0..(data_parallel_world_size - 1) |->
                            Range(r * shard_size, (r + 1) * shard_size)]]

(***************************************************************************)
(* _copy_model_grads_to_main_grads and _copy_main_params_to_model_params   *)
(***************************************************************************)
\* the pairs zip(model_group, shard_main_group) walks over the two families
\* of groups, each with the contents of the main shard
group_pairs(self, memory) ==
    UNION {{[model_param |-> self.model_float16_groups[g][k],
             shard_main_param |-> self.shard_fp32_from_float16_groups[g][k],
             data |-> memory.main[g][k]] :
                k \in 1..Len(self.model_float16_groups[g])}
           \cup
           {[model_param |-> self.model_fp32_groups[g][k],
             shard_main_param |-> self.shard_fp32_groups[g][k],
             data |-> view_data(memory, self.shard_fp32_groups[g][k])] :
                k \in 1..Len(self.model_fp32_groups[g])} :
           g \in 1..Len(self.model_float16_groups)}

\* self.get_model_param_range_map(model_param)
get_model_param_range_map(self, model_param) ==
    param_range_of(self.model_gbuf_ranges, self.model_param_gbuf_map, model_param)

\* shard_main_param.grad = model_param.main_grad.view(-1)[start:end].float():
\* the grads are kept as the slices they were taken from
copy_model_grads_to_main_grads(self, memory) ==
    LET pairs == group_pairs(self, memory)
        range_of(pair) == get_model_param_range_map(self, pair.model_param).param
    IN  [raised |-> IF \A pair \in pairs : range_of(pair).size = Len(pair.data)
                    THEN "" ELSE "AssertionError",
         main_grads |->
            [shard \in {pair.shard_main_param : pair \in pairs} |->
                LET pair == CHOOSE q \in pairs : q.shard_main_param = shard
                IN  [of |-> pair.model_param,
                     start |-> range_of(pair).start,
                     end |-> range_of(pair).end,
                     zeroed |-> FALSE]]]

\* the index in self.param_buffers of the buffer of (model_id, dtype)
buffer_of(self, model_param) ==
    LET key == self.model_param_gbuf_map[model_param]
    IN  CHOOSE b \in 1..Len(self.model_gbuf_ranges) :
            /\ self.model_gbuf_ranges[b].model_index = key[1]
            /\ self.model_gbuf_ranges[b].dtype = key[2]

\* every element taken from the first participant's buffer
all_gathered_from_first(memories, b, data_parallel_world_size) ==
    memories[0].param_buffers[b]

\* the range in the participant's own slice
copy_world_range_local(param_range_map) == param_range_map.gbuf_local

\* world_range = param_range_map["gbuf_world"]
copy_world_range(param_range_map) == param_range_map.gbuf_world

\* model_param_buffer.view(-1)[world_range.start:world_range.end]
\*     .data.copy_(shard_main_param) for every pair
copy_main_params_to_model_params(self, memory, params_dtype) ==
    LET pairs == group_pairs(self, memory)
        world_range(pair) ==
            copy_world_range(get_model_param_range_map(self, pair.model_param))
        writes(b, i) == {pair \in pairs :
                            /\ buffer_of(self, pair.model_param) = b
                            /\ world_range(pair).start < i
                            /\ i <= world_range(pair).end}
    IN  [raised |-> IF \A pair \in pairs : world_range(pair).size = Len(pair.data)
                    THEN "" ELSE "AssertionError",
         param_buffers |->
            [b \in 1..Len(memory.param_buffers) |->
                [i \in 1..Len(memory.param_buffers[b]) |->
                    IF writes(b, i) = {} THEN memory.param_buffers[b][i]
                    ELSE LET pair == CHOOSE q \in writes(b, i) : TRUE
                         IN  cast(pair.data[i - world_range(pair).start],
                                  params_dtype)]]]

(***************************************************************************)
(* zero_grad                                                               *)
(***************************************************************************)
\* a model parameter as an entry of model_float16_groups / model_fp32_groups
model_tensor(model_param) == [tensor |-> "param", of |-> model_param]

\* the tensors of a list of groups
group_tensors(groups) ==
    UNION {{groups[g][k] : k \in 1..Len(groups[g])} : g \in 1..Len(groups)}

\* only the two families of model parameters
zero_grad_model_families(self) ==
    {model_tensor(p) : p \in group_tensors(self.model_float16_groups)}
        \cup {model_tensor(p) : p \in group_tensors(self.model_fp32_groups)}

\* the tensors of the five families zero_grad walks
zero_grad_families(self) ==
    {model_tensor(p) : p \in group_tensors(self.model_float16_groups)}
        \cup {model_tensor(p) : p \in group_tensors(self.model_fp32_groups)}
        \cup group_tensors(self.shard_float16_groups)
        \cup group_tensors(self.shard_fp32_groups)
        \cup group_tensors(self.shard_fp32_from_float16_groups)

\* _zero_grad_group_helper on one tensor: a grad that is None is left alone,
\* another one is dropped or filled with zeros. memory.main_grads holds the
\* .grad of every tensor whose grad is not None.
zero_grad(self, memory, set_to_none) ==
    LET grads == memory.main_grads
        visited == zero_grad_families(self) \cap DOMAIN grads
    IN  [memory EXCEPT !.main_grads =
            IF set_to_none
            THEN [t \in DOMAIN grads \ visited |-> grads[t]]
            ELSE [t \in DOMAIN grads |->
                    IF t \in visited THEN [grads[t] EXCEPT !.zeroed = TRUE]
                    ELSE grads[t]]]

(***************************************************************************)
(* gather_model_params                                                     *)
(***************************************************************************)
\* what _all_gather_base leaves in pbuf on every participant: view r of the
\* buffer comes from participant r
all_gathered(memories, b, data_parallel_world_size) ==
    LET numel == Len(memories[0].param_buffers[b])
        buf_views == get_model_buffer_dp_views(numel, data_parallel_world_size).buf_views
        sender(i) == CHOOSE r \in DOMAIN buf_views :
                        buf_views[r].start < i /\ i <= buf_views[r].end
    IN  [i \in 1..numel |-> memories[sender(i)].param_buffers[b][i]]

\* param.view(-1).detach().copy_(param_buf[buf_start:buf_end]) for every
\* param of every index map
copy_param_buffers_to_params(memory, buffers, types) ==
    [p \in DOMAIN memory.params |->
        LET found == index_item(buffers, p)
            param_buf_shard == py_slice(memory.param_buffers[found.buffer],
                                        found.item.start, found.item.end)
        IN  [i \in 1..Len(memory.params[p]) |-> cast(param_buf_shard[i], types[p])]]

(***************************************************************************)
(* The inputs of the constructor: the grad buffers the distributed-data-   *)
(* parallel layer built, the parameters' types and the base optimizer's    *)
(* groups.                                                                 *)
(***************************************************************************)
\* the sequences of k positive integers that sum to n
RECURSIVE Compositions(_, _)
Compositions(n, k) ==
    IF k = 0 THEN (IF n = 0 THEN {<<>>} ELSE {})
    ELSE UNION { { <<h>> \o t : t \in Compositions(n - h, k - 1) } :
                 h \in 1..(n - k + 1) }

\* sum of s[lo..hi]
RECURSIVE SumRange(_, _, _)
SumRange(s, lo, hi) == IF lo > hi THEN 0 ELSE s[lo] + SumRange(s, lo + 1, hi)

\* Grad buffer b holds params first..last (ids), laid out back to back from 0
\* in insertion order; numel_padded is the next multiple of the world size.
grad_buffer(b, sizes, counts, world_size) ==
    LET first == SumRange(counts, 1, b - 1) + 1
        last == SumRange(counts, 1, b)
        numel == SumRange(sizes, first, last)
    IN  [model_index |-> b - 1,
         dtype |-> "torch.float",
         numel |-> numel,
         numel_padded |-> world_size * CeilDiv(numel, world_size),
         param_index_map |->
            [k \in 1..(last - first + 1) |->
                [p |-> first + k - 1,
                 order |-> k - 1,
                 start |-> SumRange(sizes, first, first + k - 2),
                 end |-> SumRange(sizes, first, first + k - 1)]]]

\* the params (ids, ascending) the base optimizer holds in each of its groups
base_param_groups(group_of, np) ==
    [g \in 1..Len(GroupHypers) |->
        [params |-> SelectSeq([k \in 1..np |-> k], LAMBDA q : group_of[q] = g),
         hyper |-> GroupHypers[g]]]

\* the items of a _grad_buffer_param_index_map in the order the dict got
\* them: by ascending or by descending position in the buffer
inserted(param_index_map, insertion) ==
    IF insertion = "descending"
    THEN [k \in 1..Len(param_index_map) |->
            param_index_map[Len(param_index_map) + 1 - k]]
    ELSE param_index_map

\* no checkpoint on disk, no load_state_dict call yet, no step under way
NoDisk == [r \in {} |-> 0]

NoLoad == [called |-> FALSE]

NoRun == [ip |-> 1, steps |-> 0, waiting |-> FALSE, issued |-> <<>>]

\* the job as it starts: nothing is constructed
InitState(world_size, buffers, types, groups, config, position) ==
    /\ W = world_size
    /\ gbufs = buffers
    /\ ptype = types
    /\ param_groups = groups
    /\ cfg = config
    /\ pc = [r \in 0..(world_size - 1) |-> position]
    /\ opt = [r \in 0..(world_size - 1) |->
                IF position = "new"
                THEN NoOptimizer
                ELSE DistributedOptimizerOf(buffers, types, groups, world_size, r)]
    /\ mem = [r \in 0..(world_size - 1) |->
                IF position = "new"
                THEN NoMemory(buffers, types, config)
                ELSE constructed_memory(
                        DistributedOptimizerOf(buffers, types, groups, world_size, r),
                        NoMemory(buffers, types, config), buffers,
                        config.params_dtype)]
    /\ disk = NoDisk
    /\ loaded = [r \in 0..(world_size - 1) |-> NoLoad]
    /\ run = [r \in 0..(world_size - 1) |-> NoRun]

InitOf(maxW, maxNumel, maxParams, maxBufs, groups, types, insertions, rules, scalers, position) ==
    \E world_size \in 1..maxW, np \in 1..maxParams :
    \E n \in np..maxNumel, nb \in 1..Min(np, maxBufs) :
    \E sizes \in Compositions(n, np), counts \in Compositions(np, nb) :
    \E tp \in [1..np -> types], group_of \in [1..np -> 1..groups] :
    \E insertion \in insertions, rule \in rules, scaler \in scalers :
        InitState(world_size,
                  [b \in 1..nb |->
                    [grad_buffer(b, sizes, counts, world_size) EXCEPT
                        !.param_index_map = inserted(@, insertion)]],
                  tp,
                  base_param_groups(group_of, np),
                  [params_dtype |-> params_dtype_of(tp),
                   grad_scaler |-> scaler,
                   step_rule |-> rule,
                   resumed |-> FALSE],
                  position)

InitWith(maxW, maxNumel, maxParams, maxBufs, types) ==
    InitOf(maxW, maxNumel, maxParams, maxBufs, Len(GroupHypers), types,
           {"ascending"}, {"identity"}, {FALSE}, "new")

\* several grad buffers, every parameter type, few elements
Init == InitWith(MaxW, MaxGroupNumel, MaxParams, MaxBufs, ParamTypes)

\* one float32 grad buffer of up to MaxNumel elements
InitPartition == InitWith(MaxW, MaxNumel, MaxLayoutParams, 1, {FloatTensor})

(***************************************************************************)
(* Participant r constructs its optimizer.                                 *)
(***************************************************************************)
Construct(r) ==
    /\ pc[r] = "new"
    /\ IF construction_error(gbufs, ptype, param_groups, W, r) = ""
       THEN /\ pc' = [pc EXCEPT ![r] = "ready"]
            /\ opt' = [opt EXCEPT ![r] = DistributedOptimizer(r)]
            /\ mem' = [mem EXCEPT ![r] =
                        constructed_memory(DistributedOptimizer(r), mem[r], gbufs,
                                           cfg.params_dtype)]
       ELSE /\ pc' = [pc EXCEPT ![r] = "failed"]
            /\ UNCHANGED <<opt, mem>>
    /\ UNCHANGED <<model_vars, cfg, disk, loaded, run>>

Next == \E r \in DOMAIN pc : Construct(r)

Spec == Init /\ [][Next]_vars

SpecPartition == InitPartition /\ [][Next]_vars

(***************************************************************************)
(* The constructor called with any argument values: parameters of any      *)
(* tensor type, grad buffers of any dtype, any params_dtype.               *)
(***************************************************************************)
InitArguments ==
    \E world_size \in 1..MaxArgumentsW, np \in 1..MaxArgumentsParams :
    \E nb \in 1..np, group_of \in [1..np -> 1..Len(GroupHypers)] :
    \E counts \in Compositions(np, nb) :
    \E tp \in [1..np -> ParamTypes \cup {DoubleTensor}] :
    \E dtypes \in [1..nb -> {"torch.float", "torch.half"}] :
    \E params_dtype \in {HalfTensor, FloatTensor} :
        InitState(world_size,
                  [b \in 1..nb |->
                    [grad_buffer(b, [k \in 1..np |-> 1], counts, world_size) EXCEPT
                        !.dtype = dtypes[b]]],
                  tp,
                  base_param_groups(group_of, np),
                  [params_dtype |-> params_dtype,
                   grad_scaler |-> FALSE,
                   step_rule |-> "identity",
                   resumed |-> FALSE],
                  "new")

SpecArguments == InitArguments /\ [][Next]_vars

(***************************************************************************)
(* Checkpoints.  The job constructs the optimizers, trains one step, and   *)
(* every participant writes its checkpoint; the job is then stopped and    *)
(* resumed, possibly with another world size or without (with) a grad      *)
(* scaler, and every participant that finds its file loads it.             *)
(***************************************************************************)
\* self.optimizer.step(), reached when every participant is constructed
OptimizerStep(r) ==
    /\ pc[r] = "ready"
    /\ ~cfg.resumed
    /\ \A q \in DOMAIN pc : pc[q] # "new"
    /\ mem' = [mem EXCEPT ![r] = base_step(opt[r], mem[r], cfg)]
    /\ pc' = [pc EXCEPT ![r] = "trained"]
    /\ UNCHANGED <<model_vars, opt, cfg, disk, loaded, run>>

\* state_dict(), and the file written from what it returns; "saved" keeps
\* what the optimizer held when it was called
StateDict(r) ==
    LET returned == state_dict(opt[r], mem[r], cfg)
        file == [state_dict |-> returned,
                 saved |-> [memory |-> mem[r],
                            param_groups |-> opt[r].optimizer_param_groups,
                            model_gbuf_ranges |-> opt[r].model_gbuf_ranges]]
    IN  /\ pc[r] = "trained"
        /\ \A q \in DOMAIN pc : pc[q] \notin {"new", "ready"}
        /\ IF returned.raised = ""
           THEN /\ disk' = [q \in DOMAIN disk \cup {r} |->
                                IF q = r THEN file ELSE disk[q]]
                /\ pc' = [pc EXCEPT ![r] = "saved"]
           ELSE /\ disk' = disk
                /\ pc' = [pc EXCEPT ![r] = "save_failed"]
        /\ UNCHANGED <<model_vars, opt, cfg, mem, loaded, run>>

\* the job starts again from its checkpoint with world_size participants
Resume(world_size, grad_scaler) ==
    LET config == [cfg EXCEPT !.grad_scaler = grad_scaler, !.resumed = TRUE]
        buffers == [b \in 1..Len(gbufs) |->
                        [gbufs[b] EXCEPT !.numel_padded =
                            world_size * CeilDiv(gbufs[b].numel, world_size)]]
    IN  /\ ~cfg.resumed
        /\ \A q \in DOMAIN pc : pc[q] \in {"saved", "save_failed"}
        /\ W' = world_size
        /\ gbufs' = buffers
        /\ cfg' = config
        /\ pc' = [r \in 0..(world_size - 1) |-> "new"]
        /\ opt' = [r \in 0..(world_size - 1) |-> NoOptimizer]
        /\ mem' = [r \in 0..(world_size - 1) |-> NoMemory(buffers, ptype, config)]
        /\ loaded' = [r \in 0..(world_size - 1) |-> NoLoad]
        /\ run' = [r \in 0..(world_size - 1) |-> NoRun]
        /\ UNCHANGED <<ptype, param_groups, disk>>

\* load_state_dict(the file of rank r); an exception ends the participant
LoadStateDict(r) ==
    /\ pc[r] = "ready"
    /\ cfg.resumed
    /\ r \in DOMAIN disk
    /\ LET result == load_state_dict(opt[r], mem[r], cfg, disk[r].state_dict)
       IN  /\ mem' = [mem EXCEPT ![r] = result.memory]
           /\ opt' = [opt EXCEPT ![r].optimizer_param_groups = result.param_groups]
           /\ loaded' = [loaded EXCEPT ![r] =
                            [called |-> TRUE,
                             result |-> result,
                             before |-> [memory |-> mem[r],
                                         param_groups |->
                                            opt[r].optimizer_param_groups]]]
           /\ pc' = [pc EXCEPT ![r] =
                        IF result.raised = "" THEN "loaded" ELSE "load_failed"]
    /\ UNCHANGED <<model_vars, cfg, disk, run>>

InitCheckpoint ==
    InitOf(MaxCheckpointW, MaxCheckpointNumel, MaxParams, MaxBufs,
           Len(GroupHypers), {BFloat16Tensor, FloatTensor}, {"ascending", "descending"},
           {"update"}, BOOLEAN, "new")

NextCheckpoint ==
    \/ \E r \in DOMAIN pc : Construct(r)
    \/ \E r \in DOMAIN pc : OptimizerStep(r)
    \/ \E r \in DOMAIN pc : StateDict(r)
    \/ \E world_size \in 1..MaxCheckpointW, grad_scaler \in BOOLEAN :
            Resume(world_size, grad_scaler)
    \/ \E r \in DOMAIN pc : LoadStateDict(r)

SpecCheckpoint == InitCheckpoint /\ [][NextCheckpoint]_vars

(***************************************************************************)
(* The training step.  Every participant makes the calls of step_calls in  *)
(* order; a collective blocks the participant that issued it until every   *)
(* participant has issued the same one.                                    *)
(***************************************************************************)
\* the call participant r makes next
NextCall(r) == step_calls(gbufs, r)[run[r].ip]

\* participant r is between two calls of a step
Stepping(r, op) ==
    /\ pc[r] = "ready"
    /\ ~run[r].waiting
    /\ run[r].steps < MaxSteps
    /\ NextCall(r).op = op

\* the call was made and has returned
returned(position, call, calls) ==
    IF position.ip = Len(calls)
    THEN [position EXCEPT !.ip = 1, !.steps = @ + 1, !.waiting = FALSE,
                          !.issued = Append(@, call)]
    ELSE [position EXCEPT !.ip = @ + 1, !.waiting = FALSE,
                          !.issued = Append(@, call)]

Return(r) ==
    run' = [run EXCEPT ![r] = returned(run[r], NextCall(r), step_calls(gbufs, r))]

\* an assert of the call failed
Raise(r) == pc' = [pc EXCEPT ![r] = "failed"]

\* the backward pass leaves fresh gradients in every grad buffer
Backward(r) ==
    /\ Stepping(r, "backward")
    /\ mem' = [mem EXCEPT ![r].grads =
                [b \in 1..Len(gbufs) |-> [scaled |-> 0, reduced |-> FALSE]]]
    /\ run' = [run EXCEPT ![r] =
                [returned(run[r], NextCall(r), step_calls(gbufs, r))
                    EXCEPT !.issued = <<NextCall(r)>>]]
    /\ UNCHANGED <<model_vars, pc, opt, cfg, disk, loaded>>

\* self.allreduce_layernorm_grads(args): a collective of the model-parallel
\* group, whose other members are not participants of this group
AllreduceLayernormGrads(r) ==
    /\ Stepping(r, "allreduce_layernorm_grads")
    /\ Return(r)
    /\ UNCHANGED <<model_vars, pc, opt, cfg, mem, disk, loaded>>

\* self.allreduce_embedding_grads(args), likewise
AllreduceEmbeddingGrads(r) ==
    /\ Stepping(r, "allreduce_embedding_grads")
    /\ Return(r)
    /\ UNCHANGED <<model_vars, pc, opt, cfg, mem, disk, loaded>>

\* gbuf.data /= data_parallel_world_size
ScaleGradBuffer(r) ==
    /\ Stepping(r, "scale")
    /\ mem' = [mem EXCEPT ![r].grads[NextCall(r).buffer].scaled = @ + 1]
    /\ Return(r)
    /\ UNCHANGED <<model_vars, pc, opt, cfg, disk, loaded>>

\* participant r enters a collective of the data-parallel group
Issue(r, op) ==
    /\ Stepping(r, op)
    /\ IF get_model_buffer_dp_views(gbufs[NextCall(r).buffer].numel_padded, W).raised = ""
       THEN /\ run' = [run EXCEPT ![r].waiting = TRUE,
                                  ![r].issued = Append(@, NextCall(r))]
            /\ pc' = pc
       ELSE /\ Raise(r)
            /\ run' = run
    /\ UNCHANGED <<model_vars, opt, cfg, mem, disk, loaded>>

\* every participant is inside the collective op on buffer b
Matched(op, b) ==
    \A r \in DOMAIN pc :
        /\ pc[r] = "ready"
        /\ run[r].waiting
        /\ NextCall(r).op = op
        /\ NextCall(r).buffer = b

\* every participant leaves the collective
Complete ==
    run' = [r \in DOMAIN run |->
                [returned(run[r], NextCall(r), step_calls(gbufs, r))
                    EXCEPT !.issued = run[r].issued]]

IssueReduceScatter(r) == Issue(r, "reduce_scatter")

\* torch.distributed._reduce_scatter_base on buffer b completes
ReduceScatter(b) ==
    /\ Matched("reduce_scatter", b)
    /\ mem' = [r \in DOMAIN mem |-> [mem[r] EXCEPT !.grads[b].reduced = TRUE]]
    /\ Complete
    /\ UNCHANGED <<model_vars, pc, opt, cfg, disk, loaded>>

CopyModelGradsToMainGrads(r) ==
    LET copied == copy_model_grads_to_main_grads(opt[r], mem[r])
    IN  /\ Stepping(r, "copy_model_grads_to_main_grads")
        /\ IF copied.raised = ""
           THEN /\ mem' = [mem EXCEPT ![r].main_grads = copied.main_grads]
                /\ Return(r)
                /\ pc' = pc
           ELSE /\ Raise(r)
                /\ UNCHANGED <<mem, run>>
        /\ UNCHANGED <<model_vars, opt, cfg, disk, loaded>>

\* self.optimizer.step() inside the step
InnerStep(r) ==
    /\ Stepping(r, "step")
    /\ mem' = [mem EXCEPT ![r] = base_step(opt[r], mem[r], cfg)]
    /\ Return(r)
    /\ UNCHANGED <<model_vars, pc, opt, cfg, disk, loaded>>

CopyMainParamsToModelParams(r) ==
    LET copied == copy_main_params_to_model_params(opt[r], mem[r], cfg.params_dtype)
    IN  /\ Stepping(r, "copy_main_params_to_model_params")
        /\ IF copied.raised = ""
           THEN /\ mem' = [mem EXCEPT ![r].param_buffers = copied.param_buffers]
                /\ Return(r)
                /\ pc' = pc
           ELSE /\ Raise(r)
                /\ UNCHANGED <<mem, run>>
        /\ UNCHANGED <<model_vars, opt, cfg, disk, loaded>>

IssueAllGather(r) == Issue(r, "all_gather")

\* torch.distributed._all_gather_base on buffer b completes
AllGather(b) ==
    /\ Matched("all_gather", b)
    /\ mem' = [r \in DOMAIN mem |->
                [mem[r] EXCEPT !.param_buffers[b] = all_gathered(mem, b, W)]]
    /\ Complete
    /\ UNCHANGED <<model_vars, pc, opt, cfg, disk, loaded>>

CopyParamBuffersToParams(r) ==
    /\ Stepping(r, "copy_param_buffers_to_params")
    /\ mem' = [mem EXCEPT ![r].params =
                copy_param_buffers_to_params(mem[r], gbufs, ptype)]
    /\ Return(r)
    /\ UNCHANGED <<model_vars, pc, opt, cfg, disk, loaded>>

InitStep ==
    InitOf(MaxStepW, MaxStepNumel, MaxParams, MaxBufs, 1,
           {BFloat16Tensor, FloatTensor}, {"ascending"}, {"identity"}, {FALSE},
           "ready")

NextStep ==
    \/ \E r \in DOMAIN pc : Backward(r)
    \/ \E r \in DOMAIN pc : AllreduceLayernormGrads(r)
    \/ \E r \in DOMAIN pc : AllreduceEmbeddingGrads(r)
    \/ \E r \in DOMAIN pc : ScaleGradBuffer(r)
    \/ \E r \in DOMAIN pc : IssueReduceScatter(r)
    \/ \E b \in 1..Len(gbufs) : ReduceScatter(b)
    \/ \E r \in DOMAIN pc : CopyModelGradsToMainGrads(r)
    \/ \E r \in DOMAIN pc : InnerStep(r)
    \/ \E r \in DOMAIN pc : CopyMainParamsToModelParams(r)
    \/ \E r \in DOMAIN pc : IssueAllGather(r)
    \/ \E b \in 1..Len(gbufs) : AllGather(b)
    \/ \E r \in DOMAIN pc : CopyParamBuffersToParams(r)

\* every participant is a process that keeps running and the collectives
\* return once matched
SpecStep == InitStep /\ [][NextStep]_vars /\ WF_vars(NextStep)

(***************************************************************************)
(* zero_grad between the steps: autograd and the copy of the grads leave   *)
(* grads on the tensors, zero_grad clears them.                            *)
(***************************************************************************)
\* every tensor participant r holds: its model parameters, their shard
\* views and the master shards
Tensors(r) ==
    {model_tensor(p) : p \in group_tensors(opt[r].model_float16_groups)
                            \cup group_tensors(opt[r].model_fp32_groups)}
        \cup group_tensors(opt[r].shard_float16_groups)
        \cup group_tensors(opt[r].shard_fp32_groups)
        \cup group_tensors(opt[r].shard_fp32_from_float16_groups)

\* something gives tensor t of participant r a grad
SetGrad(r, t) ==
    /\ pc[r] = "ready"
    /\ t \notin DOMAIN mem[r].main_grads
    /\ mem' = [mem EXCEPT ![r].main_grads =
                [q \in DOMAIN @ \cup {t} |->
                    IF q = t
                    THEN [of |-> t.of, start |-> 0, end |-> 0, zeroed |-> FALSE]
                    ELSE @[q]]]
    /\ UNCHANGED <<model_vars, pc, opt, cfg, disk, loaded, run>>

ZeroGrad(r, set_to_none) ==
    /\ pc[r] = "ready"
    /\ mem' = [mem EXCEPT ![r] = zero_grad(opt[r], mem[r], set_to_none)]
    /\ UNCHANGED <<model_vars, pc, opt, cfg, disk, loaded, run>>

InitZeroGrad ==
    InitOf(MaxZeroGradW, MaxZeroGradNumel, MaxParams, MaxBufs, Len(GroupHypers),
           {BFloat16Tensor, FloatTensor}, {"ascending"}, {"identity"}, {FALSE},
           "ready")

NextZeroGrad ==
    \/ \E r \in DOMAIN pc : \E t \in Tensors(r) : SetGrad(r, t)
    \/ \E r \in DOMAIN pc : \E set_to_none \in BOOLEAN : ZeroGrad(r, set_to_none)

SpecZeroGrad == InitZeroGrad /\ [][NextZeroGrad]_vars

(***************************************************************************)
(* The training step under both step rules: the base optimizer either      *)
(* leaves the main params alone or moves every element of them.            *)
(***************************************************************************)
InitGather ==
    InitOf(MaxGatherW, MaxGatherNumel, MaxParams, MaxBufs, 1,
           {BFloat16Tensor, FloatTensor}, {"ascending"}, {"identity", "update"},
           {FALSE}, "ready")

SpecGather == InitGather /\ [][NextStep]_vars

(***************************************************************************)
(* Construction over a grad buffer with any admissible padding: one float  *)
(* grad buffer of one float32 parameter whose numel_padded is a multiple   *)
(* of the world size and at least numel.                                   *)
(***************************************************************************)
InitPadding ==
    \E world_size \in 1..MaxPaddingW, n \in 1..MaxPaddingNumel :
    \E padding \in 0..MaxPadding :
        InitState(world_size,
                  <<[grad_buffer(1, <<n>>, <<1>>, world_size) EXCEPT
                        !.numel_padded = @ + padding * world_size]>>,
                  <<FloatTensor>>,
                  base_param_groups(<<1>>, 1),
                  [params_dtype |-> params_dtype_of(<<FloatTensor>>),
                   grad_scaler |-> FALSE,
                   step_rule |-> "identity",
                   resumed |-> FALSE],
                  "new")

SpecPadding == InitPadding /\ [][Next]_vars

(***************************************************************************)
(* Properties of the partitioner.                                          *)
(***************************************************************************)
Ranks == DOMAIN pc
Ready(r) == pc[r] = "ready"
AllReady == \A r \in Ranks : Ready(r)
Buffers == 1..Len(gbufs)

\* what participant r stores for grad buffer b
GbufRange(r, b) == opt[r].model_gbuf_ranges[b].gbuf_range_map

\* shard_size = ceil(N / W), stated without the division
ShardSize(N) == CHOOSE s \in 0..N : s * W >= N /\ (s - 1) * W < N

InRange(i, range) == range.start <= i /\ i < range.end

\* C1: for every buffer size N, world size W and rank q, the world range of q
\* is [q*s, min(N, (q+1)*s)) with s = ceil(N / W); "world" is the entry of the
\* calling rank and "local" is that range shifted to origin 0.
C1_WorldRangeFormula ==
    \A r \in Ranks : Ready(r) => \A b \in Buffers :
        LET N == gbufs[b].numel
            s == ShardSize(N)
            g == GbufRange(r, b)
        IN  /\ DOMAIN g.world_all = 0..(W - 1)
            /\ \A q \in 0..(W - 1) :
                /\ g.world_all[q].start = q * s
                /\ g.world_all[q].end = (IF (q + 1) * s < N THEN (q + 1) * s ELSE N)
                /\ g.world_all[q].size = g.world_all[q].end - g.world_all[q].start
            /\ g.world = g.world_all[r]
            /\ g.local.start = 0
            /\ g.local.end = g.world.end - g.world.start
            /\ g.local.size = g.world.size
            /\ g.max_range_size = s

\* the last rank is constructed on a buffer whose size W does not divide
C1_Witness ==
    /\ W >= 2
    /\ Ready(W - 1)
    /\ \E b \in Buffers :
        /\ gbufs[b].numel % W # 0
        /\ GbufRange(W - 1, b).world.end = gbufs[b].numel
        /\ GbufRange(W - 1, b).world.size > 0

\* C2: the W world ranges are pairwise disjoint and their union is [0, N):
\* every index of [0, N) lies in exactly one world range and no world range
\* holds an index outside [0, N).
C2_WorldRangesTile ==
    \A r \in Ranks : Ready(r) => \A b \in Buffers :
        LET N == gbufs[b].numel
            g == GbufRange(r, b)
        IN  /\ \A i \in 0..(N - 1) :
                Cardinality({q \in 0..(W - 1) : InRange(i, g.world_all[q])}) = 1
            /\ \A q \in 0..(W - 1) :
                \A i \in g.world_all[q].start..(g.world_all[q].end - 1) :
                    i \in 0..(N - 1)

C2_Witness ==
    /\ W >= 3
    /\ AllReady
    /\ \E b \in Buffers :
        /\ gbufs[b].numel % W # 0
        /\ \A q \in 0..(W - 1) : GbufRange(0, b).world_all[q].size > 0

WellFormed(range) == 0 <= range.start /\ range.start <= range.end

\* C4: every Range the partitioner creates (the entries of world_all, "world",
\* "local", and gbuf_world / gbuf_local / param of every param_map entry)
\* satisfies 0 <= start <= end.
C4_RangesWellFormed ==
    \A r \in Ranks : Ready(r) => \A b \in Buffers :
        LET g == GbufRange(r, b)
        IN  /\ \A q \in 0..(W - 1) : WellFormed(g.world_all[q])
            /\ WellFormed(g.world)
            /\ WellFormed(g.local)
            /\ \A k \in 1..Len(g.param_map) :
                /\ WellFormed(g.param_map[k].gbuf_world)
                /\ WellFormed(g.param_map[k].gbuf_local)
                /\ WellFormed(g.param_map[k].param)

\* the placement (world_start, world_end) of param p in grad buffer b
WorldIndexes(b, p) ==
    LET m == gbufs[b].param_index_map
    IN  m[CHOOSE k \in 1..Len(m) : m[k].p = p]

Contains(outer_start, outer_end, range) ==
    outer_start <= range.start /\ range.end <= outer_end

\* C5: for every retained parameter the three ranges have the same strictly
\* positive size, gbuf_world lies in the participant's world range, gbuf_local
\* in [0, local_shard.size) and param in [0, world_end - world_start).
C5_ThreeWayAgreement ==
    \A r \in Ranks : Ready(r) => \A b \in Buffers :
        LET g == GbufRange(r, b)
        IN  \A k \in 1..Len(g.param_map) :
                LET e == g.param_map[k]
                    pwi == WorldIndexes(b, e.p)
                IN  /\ e.gbuf_world.end - e.gbuf_world.start > 0
                    /\ e.gbuf_world.size = e.gbuf_world.end - e.gbuf_world.start
                    /\ e.gbuf_local.size = e.gbuf_local.end - e.gbuf_local.start
                    /\ e.param.size = e.param.end - e.param.start
                    /\ e.gbuf_world.size = e.gbuf_local.size
                    /\ e.gbuf_local.size = e.param.size
                    /\ Contains(g.world.start, g.world.end, e.gbuf_world)
                    /\ Contains(0, g.local.size, e.gbuf_local)
                    /\ Contains(0, pwi.end - pwi.start, e.param)

\* a participant retains the inner part of a parameter that starts in an
\* earlier shard and ends in a later one
C5_Witness ==
    \E r \in Ranks : Ready(r) /\ \E b \in Buffers :
        LET g == GbufRange(r, b)
        IN  \E k \in 1..Len(g.param_map) :
                LET e == g.param_map[k]
                    pwi == WorldIndexes(b, e.p)
                IN  /\ e.param.start > 0
                    /\ e.param.end < pwi.end - pwi.start
                    /\ Len(g.param_map) = 1

\* the ranks that retain param p of buffer b, and what they store for it
Holders(b, p) ==
    {r \in Ranks : \E k \in 1..Len(GbufRange(r, b).param_map) :
                        GbufRange(r, b).param_map[k].p = p}

ParamRangeAt(r, b, p) ==
    LET m == GbufRange(r, b).param_map
    IN  m[CHOOSE k \in 1..Len(m) : m[k].p = p].param

\* C6: the param ranges the participants store for a parameter p are pairwise
\* disjoint and their union is [0, numel(p)); in increasing rank order they
\* are contiguous.
C6_ParamCoverage ==
    AllReady => \A b \in Buffers : \A j \in 1..Len(gbufs[b].param_index_map) :
        LET pwi == gbufs[b].param_index_map[j]
            numel == pwi.end - pwi.start
            holders == Holders(b, pwi.p)
        IN  /\ \A i \in 0..(numel - 1) :
                Cardinality({r \in holders :
                                InRange(i, ParamRangeAt(r, b, pwi.p))}) = 1
            /\ \A r \in holders :
                Contains(0, numel, ParamRangeAt(r, b, pwi.p))
            /\ \A r1, r2 \in holders :
                (r1 < r2 /\ ~ \E r3 \in holders : r1 < r3 /\ r3 < r2)
                    => ParamRangeAt(r1, b, pwi.p).end
                            = ParamRangeAt(r2, b, pwi.p).start

\* a parameter is spread over three participants, next to another parameter
C6_Witness ==
    /\ AllReady
    /\ \E b \in Buffers :
        /\ Len(gbufs[b].param_index_map) >= 2
        /\ \E j \in 1..Len(gbufs[b].param_index_map) :
            Cardinality(Holders(b, gbufs[b].param_index_map[j].p)) >= 3

ScenarioB ==
    /\ W = 3
    /\ Len(gbufs) = 1
    /\ gbufs[1].numel = 10
    /\ gbufs[1].numel_padded = 12
    /\ Len(gbufs[1].param_index_map) = 1

C8_WorldAllRankIndependent ==
    \A r1, r2 \in Ranks : (Ready(r1) /\ Ready(r2)) => \A b \in Buffers :
        /\ GbufRange(r1, b).world_all = GbufRange(r2, b).world_all
        /\ GbufRange(r1, b).world = GbufRange(r2, b).world_all[r1]

\* three participants are constructed and own three different world ranges
C8_Witness ==
    /\ W >= 3
    /\ AllReady
    /\ \E b \in Buffers : \A r1, r2 \in Ranks :
        r1 # r2 => GbufRange(r1, b).world # GbufRange(r2, b).world

(***************************************************************************)
(* Properties of the group builder.                                        *)
(***************************************************************************)
\* the model parameter a sequence of shards was made from, shard by shard
SourceParams(shards) == [k \in 1..Len(shards) |-> shards[k].of]

\* the locally owned parameters of base group orig_group (0-based) of
\* participant r, in the order they are visited
VisitedOfGroup(r, orig_group) ==
    SelectSeq(visited_params(opt[r].model_gbuf_ranges),
              LAMBDA q : q \in SeqToSet(param_groups[orig_group + 1].params))

IsFloatView(shard) == shard.tensor = "view" /\ shard.type = FloatTensor
IsMaster(shard) == shard.tensor = "clone" /\ shard.type = FloatTensor

\* C9: for every surviving group the base optimizer's parameter list is the
\* float32 shard views of the group followed by the master shards made from
\* its low-precision parameters, each part in the order the group's locally
\* owned parameters were visited.
C9_OptimizerGroupParams ==
    \A r \in Ranks : Ready(r) =>
        /\ Len(opt[r].optimizer_param_groups) = Len(opt[r].opt_group_ranges)
        /\ \A g \in 1..Len(opt[r].opt_group_ranges) :
            LET visited == VisitedOfGroup(r, opt[r].opt_group_ranges[g].orig_group)
                fp32 == opt[r].shard_fp32_groups[g]
                main == opt[r].shard_fp32_from_float16_groups[g]
            IN  /\ opt[r].optimizer_param_groups[g].params = fp32 \o main
                /\ \A k \in 1..Len(fp32) : IsFloatView(fp32[k])
                /\ \A k \in 1..Len(main) : IsMaster(main[k])
                /\ SourceParams(fp32)
                    = SelectSeq(visited, LAMBDA q : ptype[q] = FloatTensor)
                /\ SourceParams(main)
                    = SelectSeq(visited, LAMBDA q : ptype[q] # FloatTensor)

\* a group in which a low-precision parameter is visited before a float32 one
C9_Witness ==
    \E r \in Ranks : Ready(r) /\ \E g \in 1..Len(opt[r].opt_group_ranges) :
        LET visited == opt[r].opt_group_ranges[g].params
        IN  /\ Len(visited) >= 2
            /\ ptype[visited[1]] # FloatTensor
            /\ ptype[visited[2]] = FloatTensor
            /\ Len(opt[r].optimizer_param_groups[g].params) = 2

\* C10: for every locally owned parameter p with reverse-map entry
\* (group_index, position), optimizer.param_groups[group_index]["params"]
\* [position] exists and is the shard made from p: the float32 view of p if p
\* is float32, the master shard of p otherwise.
C10_ReverseMapLookup ==
    \A r \in Ranks : Ready(r) =>
        \A p \in DOMAIN opt[r].model_param_group_index_map :
            LET found == state_dict_main_param(opt[r], p)
            IN  /\ found.exists
                /\ found.main_param.of = p
                /\ ptype[p] = FloatTensor => IsFloatView(found.main_param)
                /\ ptype[p] # FloatTensor => IsMaster(found.main_param)

(***************************************************************************)
(* Properties of the checkpoint codec.                                     *)
(***************************************************************************)
\* the dicts state_dict() emitted into the file of rank r, in emission order
Emitted(r) == disk[r].state_dict.optimizer.state

\* C11: in every checkpoint state_dict() wrote, the world_order values of the
\* emitted dicts, read in emission order over all the buffers of the
\* participant, are strictly increasing.
C11_WorldOrderIncreasing ==
    \A r \in DOMAIN disk :
        \A i \in 1..(Len(Emitted(r)) - 1) :
            Emitted(r)[i].world_order < Emitted(r)[i + 1].world_order

\* participant r has loaded its file
Loaded(r) == r \in DOMAIN loaded /\ loaded[r].called

\* the file of r was written under the partition r has now
SamePartition(r) == disk[r].saved.model_gbuf_ranges = opt[r].model_gbuf_ranges

\* the file of r has a grad scaler entry exactly if r has a grad scaler
SameScaler(r) == ("grad_scaler" \in disk[r].state_dict.keys) <=> cfg.grad_scaler

\* C12: when the partition is unchanged, load_state_dict of what state_dict
\* returned succeeds and leaves every master shard, the inner state of every
\* shard and every group's hyperparameters as they were at the save.
C12_RoundTrip ==
    \A r \in DOMAIN loaded :
        (Loaded(r) /\ SamePartition(r) /\ SameScaler(r)) =>
            /\ loaded[r].result.raised = ""
            /\ mem[r].main = disk[r].saved.memory.main
            /\ mem[r].state = disk[r].saved.memory.state
            /\ opt[r].optimizer_param_groups = disk[r].saved.param_groups

\* the copies the load of r made: the emitted dict and the entry
\* shard_fp32_from_float16_groups[group][entry] it was copied into
Written(r) == loaded[r].result.written

\* the master shard a copy went into
MasterWritten(r, w) == opt[r].shard_fp32_from_float16_groups[w.group][w.entry]

\* C13: when the partition is unchanged, load_state_dict copies the saved
\* tensor of every emitted dict, the entry
\* shard_fp32_from_float16_groups[group_index][group_order] it addresses
\* exists, and that entry is the master shard of the dict's own parameter.
C13_CopyTargets ==
    \A r \in DOMAIN loaded :
        (Loaded(r) /\ SamePartition(r)) =>
            /\ Len(Written(r)) = Len(Emitted(r))
            /\ \A i \in 1..Len(Written(r)) :
                    MasterWritten(r, Written(r)[i]).of
                        = Emitted(r)[Written(r)[i].dict].param_range_map.p

\* the load of r got as far as self.optimizer.load_state_dict
Handed(r) == Loaded(r) /\ loaded[r].result.handed

\* C14: the dict load_state_dict hands to the base optimizer as "state" has
\* exactly the state_order values of the emitted dicts as keys, and under
\* each key the inner state of the dict with that state_order.
C14_StateKeys ==
    \A r \in DOMAIN loaded :
        Handed(r) =>
            /\ DOMAIN loaded[r].result.state
                    = {Emitted(r)[i].state_order : i \in 1..Len(Emitted(r))}
            /\ \A i \in 1..Len(Emitted(r)) :
                    loaded[r].result.state[Emitted(r)[i].state_order]
                        = Emitted(r)[i].optim

\* a load handed over the states of two dicts that were emitted against
\* their state order and hold different inner states
C14_Witness ==
    \E r \in DOMAIN loaded :
        /\ Handed(r)
        /\ loaded[r].result.raised = ""
        /\ \E i, j \in 1..Len(Emitted(r)) :
                /\ i < j
                /\ Emitted(r)[i].state_order > Emitted(r)[j].state_order
                /\ Emitted(r)[i].optim # Emitted(r)[j].optim

\* some dict of the file of r carries a param_range_map that is not an item
\* of the param maps r has now
RangeMismatch(r) ==
    \E i \in 1..Len(Emitted(r)) :
        Emitted(r)[i].param_range_map
            \notin SeqToSet(visited_items(opt[r].model_gbuf_ranges))

\* C15: load_state_dict of a checkpoint whose param_range_map disagrees with
\* the current partition fails with CheckpointShapeMismatch and leaves the
\* tensors and the groups of the optimizer as they were.
C15_ShapeMismatchRejected ==
    \A r \in DOMAIN loaded :
        (Loaded(r) /\ RangeMismatch(r)) =>
            /\ loaded[r].result.raised = "CheckpointShapeMismatch"
            /\ mem[r] = loaded[r].before.memory
            /\ opt[r].optimizer_param_groups = loaded[r].before.param_groups

\* C16: load_state_dict never raises because the grad scaler is in the
\* checkpoint but not configured, or configured but not in the checkpoint;
\* a load that succeeds has restored the scaler exactly when it is both in
\* the checkpoint and configured.
C16_ScalerMismatchTolerated ==
    \A r \in DOMAIN loaded :
        Loaded(r) =>
            /\ loaded[r].result.raised # "KeyError"
            /\ loaded[r].result.raised = "" =>
                    mem[r].scaler =
                        (IF cfg.grad_scaler
                                /\ "grad_scaler" \in disk[r].state_dict.keys
                         THEN disk[r].state_dict.grad_scaler
                         ELSE loaded[r].before.memory.scaler)

(***************************************************************************)
(* Properties of the training step.                                        *)
(***************************************************************************)
\* the calls participant r has made in its current step, in order
Issued(r) == run[r].issued

\* where a call of reduce_model_grads stands in the order of its phases
Phase(call) ==
    CASE call.op = "allreduce_layernorm_grads" -> 1
      [] call.op = "allreduce_embedding_grads" -> 2
      [] call.op = "scale" -> 3
      [] call.op = "reduce_scatter" -> 4
      [] OTHER -> 0

\* C17: within reduce_model_grads every participant makes its calls in the
\* order layernorm all-reduce, embedding all-reduce, the divisions of the
\* grad buffers, the reduce-scatters: no call of an earlier phase follows one
\* of a later phase, and when a reduce-scatter is issued both all-reduces
\* are done and every grad buffer has been divided.
C17_ReduceOrder ==
    \A r \in Ranks :
        /\ \A i, j \in 1..Len(Issued(r)) :
                (i < j /\ Phase(Issued(r)[i]) > 0 /\ Phase(Issued(r)[j]) > 0)
                    => Phase(Issued(r)[i]) <= Phase(Issued(r)[j])
        /\ \A j \in 1..Len(Issued(r)) :
                Issued(r)[j].op = "reduce_scatter" =>
                    /\ \E i \in 1..(j - 1) :
                            Issued(r)[i].op = "allreduce_layernorm_grads"
                    /\ \E i \in 1..(j - 1) :
                            Issued(r)[i].op = "allreduce_embedding_grads"
                    /\ \A b \in Buffers : \E i \in 1..(j - 1) :
                            Issued(r)[i] = Call("scale", b)

\* a participant has issued the reduce-scatter of the second of two buffers
C17_Witness ==
    /\ Len(gbufs) >= 2
    /\ \E r \in Ranks : \E j \in 1..Len(Issued(r)) :
            Issued(r)[j] = Call("reduce_scatter", 2)

\* C18: under the identity step rule, once a participant has finished a
\* step, every element of every model parameter it holds has the value it
\* had when the optimizer was constructed.
C18_IdentityStep ==
    \A r \in Ranks :
        (cfg.step_rule = "identity" /\ run[r].steps >= 1) =>
            mem[r].params = model_params(gbufs, ptype)

\* reduce_model_grads of the current step has returned on participant r
ReduceReturned(r) ==
    /\ \A b \in Buffers : \E i \in 1..Len(Issued(r)) :
            Issued(r)[i] = Call("reduce_scatter", b)
    /\ ~(run[r].waiting /\ NextCall(r).op = "reduce_scatter")

\* C19: in every step every grad buffer of a participant is divided by the
\* world size at most once, and exactly once by the time reduce_model_grads
\* has returned.
C19_ScaledOncePerStep ==
    \A r \in Ranks : \A b \in Buffers :
        /\ mem[r].grads[b].scaled <= 1
        /\ ReduceReturned(r) =>
                (mem[r].grads[b].scaled = 1 /\ mem[r].grads[b].reduced)

\* reduce_model_grads has returned in the second step of a participant that
\* has two grad buffers
C19_Witness ==
    /\ Len(gbufs) >= 2
    /\ \E r \in Ranks :
            /\ run[r].steps >= 1
            /\ Issued(r)[1].op = "backward"
            /\ Len(Issued(r)) < Len(step_calls(gbufs, r))
            /\ ReduceReturned(r)

\* the participants that are inside a collective are inside the same one
IssuedAgree ==
    \A r, q \in Ranks :
        (run[r].waiting /\ run[q].waiting) =>
            (NextCall(r) = NextCall(q) /\ run[r].steps = run[q].steps)

\* every participant has made every call of every step
AllStepsDone == \A r \in Ranks : run[r].steps = MaxSteps

\* C20: the participants issue the same collectives in the same order, so
\* no two of them are ever blocked in different collectives and every
\* participant eventually finishes its steps.
C20_CollectivesMatched == [](IssuedAgree) /\ <>(AllStepsDone)

\* two participants with two grad buffers have finished their steps
C20_Witness ==
    /\ W >= 2
    /\ Len(gbufs) >= 2
    /\ AllStepsDone

(***************************************************************************)
(* Properties of the constructor's checks.                                 *)
(***************************************************************************)
\* every Range object participant r holds in the range map of grad buffer b
RangesOf(r, b) ==
    LET g == GbufRange(r, b)
    IN  {g.world, g.local}
        \cup {g.world_all[q] : q \in DOMAIN g.world_all}
        \cup UNION {{g.param_map[k].gbuf_world, g.param_map[k].gbuf_local,
                     g.param_map[k].param} : k \in DOMAIN g.param_map}

\* C21: a Range whose end is below its start is never handed to a caller:
\* no Range a constructed participant holds has end < start or a negative
\* size.
C21_InvalidRangeRejected ==
    \A r \in Ranks : Ready(r) => \A b \in Buffers :
        \A range \in RangesOf(r, b) :
            ~(range.end < range.start) /\ range.size >= 0

\* some element of param p of grad buffer b lies in the world range of rank r
LocallyOwned(r, b, p) ==
    LET world == build_model_gbuf_range(gbufs[b], r, W).world
    IN  \E j \in 1..Len(gbufs[b].param_index_map) :
            /\ gbufs[b].param_index_map[j].p = p
            /\ \E i \in gbufs[b].param_index_map[j].start
                            ..(gbufs[b].param_index_map[j].end - 1) :
                    InRange(i, world)

\* participant r owns elements of a parameter that is neither half, bfloat16
\* nor float32
OwnsUnsupported(r) ==
    \E b \in Buffers, p \in DOMAIN ptype :
        LocallyOwned(r, b, p) /\ ptype[p] \notin ParamTypes

\* C22: a participant that owns elements of a parameter of an unsupported
\* type never completes its construction: it holds no optimizer object, and
\* once it has run the constructor it has failed.
C22_UnsupportedTypeFails ==
    \A r \in Ranks :
        OwnsUnsupported(r) =>
            /\ pc[r] \in {"new", "failed"}
            /\ opt[r] = NoOptimizer

\* a participant's constructor has failed on an unsupported parameter while
\* another participant, which owns none, is constructed
C22_Witness ==
    \E r, q \in Ranks :
        /\ OwnsUnsupported(r)
        /\ pc[r] = "failed"
        /\ ~OwnsUnsupported(q)
        /\ pc[q] = "ready"

\* C23: no participant completes its construction, and so holds param
\* buffers over the storage of the grad buffers, when an element of
\* params_dtype is larger than an element of a grad buffer.
C23_AliasChecked ==
    \A r \in Ranks : Ready(r) =>
        \A b \in Buffers :
            element_size(cfg.params_dtype) <= element_size(gbufs[b].dtype)

(***************************************************************************)
(* Properties of the copies between the model and the main shards.         *)
(***************************************************************************)
\* the pairs the two copies of participant r walk
Pairs(r) == group_pairs(opt[r], mem[r])

\* the three-way map of the model parameter of a pair
PairRanges(r, pair) == get_model_param_range_map(opt[r], pair.model_param)

\* C24: on a constructed participant neither copy fails its assertion, and
\* every pair the copies zip together is a parameter with a shard of that
\* same parameter whose element count is param.size and gbuf_world.size of
\* the parameter's three-way map.
C24_CopyAssertionsHold ==
    \A r \in Ranks : Ready(r) =>
        /\ copy_model_grads_to_main_grads(opt[r], mem[r]).raised = ""
        /\ copy_main_params_to_model_params(opt[r], mem[r], cfg.params_dtype).raised = ""
        /\ \A pair \in Pairs(r) :
                /\ pair.shard_main_param.of = pair.model_param
                /\ Len(pair.data) = PairRanges(r, pair).param.size
                /\ Len(pair.data) = PairRanges(r, pair).gbuf_world.size
                /\ pair.shard_main_param.end - pair.shard_main_param.start
                        = Len(pair.data)

\* the constructed participants pair a low-precision parameter with its
\* master shard and a float32 parameter with its view, and one of them owns
\* only the tail of a parameter
C24_Witness ==
    /\ \E r \in Ranks : Ready(r) /\
            \E pair \in Pairs(r) : pair.shard_main_param.tensor = "clone"
    /\ \E r \in Ranks : Ready(r) /\
            \E pair \in Pairs(r) : pair.shard_main_param.tensor = "view"
    /\ \E r \in Ranks : Ready(r) /\
            \E pair \in Pairs(r) : PairRanges(r, pair).param.start > 0

(***************************************************************************)
(* Properties of zero_grad.                                                *)
(***************************************************************************)
\* tensor t has no grad in this memory
GradIsNone(memory, t) == t \notin DOMAIN memory.main_grads

\* the data of the parameters (and of the shards that are views of them) and
\* of the master shards
TensorData(memory) == <<memory.params, memory.main>>

\* C25: whatever grads the tensors of a participant hold, zero_grad(True)
\* followed by zero_grad(False) leaves the grad of every tensor of the five
\* families None, a repeated zero_grad(True) or zero_grad(False) changes
\* nothing further, and no zero_grad changes the data of a parameter, a
\* shard or a master shard.
C25_ZeroGrad ==
    \A r \in Ranks : Ready(r) =>
        LET none == zero_grad(opt[r], mem[r], TRUE)
            then == zero_grad(opt[r], none, FALSE)
            zeros == zero_grad(opt[r], mem[r], FALSE)
        IN  /\ \A t \in Tensors(r) : GradIsNone(none, t) /\ GradIsNone(then, t)
            /\ zero_grad(opt[r], none, TRUE) = none
            /\ zero_grad(opt[r], then, FALSE) = then
            /\ zero_grad(opt[r], zeros, FALSE) = zeros
            /\ TensorData(none) = TensorData(mem[r])
            /\ TensorData(then) = TensorData(mem[r])
            /\ TensorData(zeros) = TensorData(mem[r])

\* a participant with a master shard holds a grad on every one of its
\* tensors, one of them filled with zeros by zero_grad(False)
C25_Witness ==
    \E r \in Ranks :
        /\ Ready(r)
        /\ \E t \in Tensors(r) : t.tensor = "clone"
        /\ \E t \in Tensors(r) : t.tensor = "param"
        /\ \A t \in Tensors(r) : ~GradIsNone(mem[r], t)
        /\ \E t \in Tensors(r) : mem[r].main_grads[t].zeroed

(***************************************************************************)
(* Properties of the base optimizer's groups after construction.           *)
(***************************************************************************)
\* the parameters participant r owns elements of, by the grad buffers' index
\* maps and the world ranges
OwnedParams(r) ==
    {p \in DOMAIN ptype : \E b \in Buffers : LocallyOwned(r, b, p)}

\* the hyperparameters of the base groups that hold a parameter participant
\* r owns elements of, in the order of the base groups
OwningGroupHypers(r) ==
    LET owning == SelectSeq(param_groups,
                            LAMBDA g : SeqToSet(g.params) \cap OwnedParams(r) # {})
    IN  [k \in 1..Len(owning) |-> owning[k].hyper]

\* the places (group, position) of the optimizer's groups of participant r
\* that hold a shard of parameter p
ShardPlaces(r, p) ==
    {<<g, k>> \in (1..Len(opt[r].optimizer_param_groups)) \X (DOMAIN ptype) :
        /\ k <= Len(opt[r].optimizer_param_groups[g].params)
        /\ opt[r].optimizer_param_groups[g].params[k].of = p}

RECURSIVE SumLen(_)
SumLen(lists) == IF lists = <<>> THEN 0 ELSE Len(Head(lists)) + SumLen(Tail(lists))

\* C26: the groups of the base optimizer of a constructed participant are
\* the base groups that hold a parameter the participant owns elements of,
\* in their order and with their hyperparameters; none of them is empty;
\* every owned parameter has exactly one shard in exactly one group, every
\* other parameter none, and the groups hold as many shards as the range
\* maps have param_map entries.
C26_SurvivingGroups ==
    \A r \in Ranks : Ready(r) =>
        LET groups == opt[r].optimizer_param_groups
        IN  /\ [g \in 1..Len(groups) |-> groups[g].hyper] = OwningGroupHypers(r)
            /\ \A g \in 1..Len(groups) : Len(groups[g].params) > 0
            /\ \A p \in DOMAIN ptype :
                    Cardinality(ShardPlaces(r, p))
                        = IF p \in OwnedParams(r) THEN 1 ELSE 0
            /\ SumLen([g \in 1..Len(groups) |-> groups[g].params])
                    = Len(visited_params(opt[r].model_gbuf_ranges))

\* a constructed participant owns parameters of the second base group only,
\* and another one owns parameters of both groups
C26_Witness ==
    /\ \E r \in Ranks : Ready(r) /\ OwningGroupHypers(r) = <<GroupHypers[2]>>
    /\ \E r \in Ranks : Ready(r) /\ OwningGroupHypers(r) = GroupHypers

(***************************************************************************)
(* Properties of the param buffers during the step.                        *)
(***************************************************************************)
\* participant r has issued the call in its current step
HasIssued(r, call) == \E j \in 1..Len(Issued(r)) : Issued(r)[j] = call

\* the all-gather of param buffer b has returned on participant r
Gathered(r, b) ==
    /\ HasIssued(r, Call("all_gather", b))
    /\ ~(run[r].waiting /\ NextCall(r) = Call("all_gather", b))

\* participant r is in its first step, past _copy_main_params_to_model_params
\* and before the all-gather of param buffer b returns
CopiedNotGathered(r, b) ==
    /\ Ready(r)
    /\ run[r].steps = 0
    /\ HasIssued(r, Call("copy_main_params_to_model_params", 0))
    /\ ~Gathered(r, b)

\* the pairs of participant r whose parameter covers index i (0-based) of
\* grad buffer b with the gbuf_world range of its three-way map
PairsAt(r, b, i) ==
    {pair \in Pairs(r) :
        /\ buffer_of(opt[r], pair.model_param) = b
        /\ InRange(i, PairRanges(r, pair).gbuf_world)}

\* C27: after _copy_main_params_to_model_params and before the all-gather,
\* an element of a param buffer differs from what the buffer held before the
\* copy only at an index in gbuf_world of a parameter the participant owns;
\* such an index lies in the participant's world range and belongs to one
\* owned parameter only, and it holds that parameter's main value.
C27_CopyWritesOwnRange ==
    \A r \in Ranks : \A b \in Buffers :
        CopiedNotGathered(r, b) =>
            \A i \in 0..(Len(mem[r].param_buffers[b]) - 1) :
                /\ Cardinality(PairsAt(r, b, i)) <= 1
                /\ PairsAt(r, b, i) = {} =>
                        mem[r].param_buffers[b][i + 1] = 0 - 1
                /\ \A pair \in PairsAt(r, b, i) :
                        /\ InRange(i, GbufRange(r, b).world)
                        /\ mem[r].param_buffers[b][i + 1]
                                = cast(pair.data[i + 1 - PairRanges(r, pair).gbuf_world.start],
                                       cfg.params_dtype)

\* the second of two participants has copied its main shards into a param
\* buffer of which it owns some elements and not others
C27_Witness ==
    /\ W >= 2
    /\ \E b \in Buffers :
            /\ CopiedNotGathered(1, b)
            /\ \E i \in 0..(Len(mem[1].param_buffers[b]) - 1) : PairsAt(1, b, i) # {}
            /\ \E i \in 0..(Len(mem[1].param_buffers[b]) - 1) : PairsAt(1, b, i) = {}

(***************************************************************************)
(* Properties of the partition against the views of the collectives.       *)
(***************************************************************************)
\* the views get_model_buffer_dp_views cuts from grad buffer b
ViewsOf(b) == get_model_buffer_dp_views(gbufs[b].numel_padded, W).buf_views

\* C28: on every constructed participant r and for every grad buffer, every
\* index of the world range build_model_gbuf_range assigns to r lies in the
\* r-th view [r*padded_numel/W, (r+1)*padded_numel/W) of
\* get_model_buffer_dp_views, for every padded_numel that is a multiple of W
\* and at least numel.
C28_WorldRangeInView ==
    \A r \in Ranks : \A b \in Buffers :
        Ready(r) =>
            \A i \in 0..(gbufs[b].numel_padded - 1) :
                InRange(i, GbufRange(r, b).world) => InRange(i, ViewsOf(b)[r])

\* the same containment for the grad buffers whose padding is the least one
C28_LeastPadding ==
    \A r \in Ranks : \A b \in Buffers :
        (Ready(r) /\ gbufs[b].numel_padded = W * CeilDiv(gbufs[b].numel, W)) =>
            \A i \in 0..(gbufs[b].numel_padded - 1) :
                InRange(i, GbufRange(r, b).world) => InRange(i, ViewsOf(b)[r])

(***************************************************************************)
(* Properties of the three coordinate systems.                             *)
(***************************************************************************)
\* the slice of model_param.main_grad that _copy_model_grads_to_main_grads
\* reads for the pair on participant r
MainGradSlice(r, pair) ==
    copy_model_grads_to_main_grads(opt[r], mem[r]).main_grads[pair.shard_main_param]

\* C29: for every parameter a participant retains, with world placement
\* [world_start, world_end), gbuf_world.start - param.start = world_start and
\* gbuf_world.start - gbuf_local.start = the participant's world range start;
\* the slice [param.start, param.end) of main_grad that
\* _copy_model_grads_to_main_grads reads, shifted by world_start, is the
\* range [gbuf_world.start, gbuf_world.end) that
\* _copy_main_params_to_model_params writes.
C29_FixedOffsets ==
    \A r \in Ranks : Ready(r) =>
        /\ \A b \in Buffers :
            \A k \in 1..Len(GbufRange(r, b).param_map) :
                LET e == GbufRange(r, b).param_map[k]
                IN  /\ e.gbuf_world.start - e.param.start = WorldIndexes(b, e.p).start
                    /\ e.gbuf_world.start - e.gbuf_local.start
                            = GbufRange(r, b).world.start
                    /\ e.gbuf_world.end - e.param.end = WorldIndexes(b, e.p).start
        /\ \A pair \in Pairs(r) :
                LET world_start ==
                        WorldIndexes(buffer_of(opt[r], pair.model_param),
                                     pair.model_param).start
                    world_range == copy_world_range(PairRanges(r, pair))
                IN  /\ MainGradSlice(r, pair).of = pair.model_param
                    /\ world_start + MainGradSlice(r, pair).start = world_range.start
                    /\ world_start + MainGradSlice(r, pair).end = world_range.end

\* a participant retains the tail of a parameter that starts on an earlier
\* participant, and another retains a parameter that starts inside its range
C29_Witness ==
    /\ AllReady
    /\ \E r \in Ranks : \E b \in Buffers :
        \E k \in 1..Len(GbufRange(r, b).param_map) :
            /\ GbufRange(r, b).world.start > 0
            /\ GbufRange(r, b).param_map[k].param.start > 0
            /\ GbufRange(r, b).param_map[k].gbuf_local.start = 0
    /\ \E r \in Ranks : \E b \in Buffers :
        \E k \in 1..Len(GbufRange(r, b).param_map) :
            /\ GbufRange(r, b).param_map[k].gbuf_local.start > 0
            /\ GbufRange(r, b).param_map[k].param.start = 0
    /\ \E r \in Ranks : Pairs(r) # {}

(***************************************************************************)
(* Properties of the model params after the all-gather.                    *)
(***************************************************************************)
\* the call of the base optimizer's step is still ahead of participant r in
\* its current pass over the calls of a step
StepAhead(r) ==
    \E j \in run[r].ip..Len(step_calls(gbufs, r)) :
        step_calls(gbufs, r)[j].op = "step"

\* every participant has completed _copy_main_params_to_model_params and
\* gather_model_params, and none has run the base optimizer since
AllGatheredParams ==
    \A r \in Ranks : Ready(r) /\ run[r].steps >= 1 /\ StepAhead(r)

\* the pairs, over all participants, whose main shard holds element i
\* (1-based) of model parameter p, each with the value it holds there
MainValues(p, i) ==
    UNION {{pair.data[i - PairRanges(q, pair).param.start] :
                pair \in {x \in Pairs(q) :
                            /\ x.model_param = p
                            /\ InRange(i - 1, PairRanges(q, x).param)}} :
           q \in Ranks}

\* C30: after every participant has completed
\* _copy_main_params_to_model_params and gather_model_params, every
\* participant holds the same value for every element of every model
\* parameter, and that value is the one the master or float32 shard of the
\* element's single owner holds.
C30_GatheredEqualsMain ==
    AllGatheredParams =>
        \A r \in Ranks : \A p \in DOMAIN ptype :
            \A i \in 1..Len(mem[r].params[p]) :
                /\ mem[r].params[p][i] = mem[0].params[p][i]
                /\ MainValues(p, i) = {mem[r].params[p][i]}

\* C30, with the conversion the copy makes: every participant holds the same
\* value for every element of every model parameter, each element has one
\* owner, and the value is the one the owner's master or float32 shard
\* holds converted to params_dtype and then to the parameter's type.
C30_GatheredEqualsCastMain ==
    AllGatheredParams =>
        \A r \in Ranks : \A p \in DOMAIN ptype :
            \A i \in 1..Len(mem[r].params[p]) :
                /\ mem[r].params[p][i] = mem[0].params[p][i]
                /\ Cardinality(MainValues(p, i)) = 1
                /\ \A v \in MainValues(p, i) :
                        mem[r].params[p][i] = cast(cast(v, cfg.params_dtype), ptype[p])

\* two participants have gathered after a step that moved the main params,
\* and the second owns an element of a bfloat16 parameter
C30_Witness ==
    /\ W >= 2
    /\ AllGatheredParams
    /\ cfg.step_rule = "update"
    /\ \E pair \in Pairs(1) : ptype[pair.model_param] = BFloat16Tensor
    /\ \E pair \in Pairs(0) : TRUE

====
